---- MODULE Spec2Model ----
(***************************************************************************)
(* A model of the search / relocation core of src/file_manager.py:         *)
(* SearchWorker.run, ActionWorker.run (with matches_rule and               *)
(* get_size_tier) and the FileManagerApp handlers that start and stop the  *)
(* two workers.                                                            *)
(*                                                                         *)
(* Strings are sequences of one-character strings, so that lower(),        *)
(* strip(), split(), endswith() and splitext() are computed, not assumed.  *)
(* A file is identified by its absolute path; paths are the numbers        *)
(* 1..MaxFiles and the stat data of a path is given by the catalogue       *)
(* below.                                                                  *)
(***************************************************************************)
EXTENDS Integers, Sequences, FiniteSets, TLC

\* ------------------------------------------------------------------ bounds
MaxFiles == 3
MaxBatch == 2
MaxRules == 2
MaxSearchRuns == 2
MaxActionRuns == 2

MaxAppWorkers == 3

\* --------------------------------------------------------------- constants
MB == 1024 * 1024

DefaultBatchSize == 100

\* batch_size holds an int or, after load_settings has read a value that is
\* no number (a JSON string or null), that value: all such values are held
\* as NotAnInteger, which no document spells
NotAnInteger == 0 - 999999

None == <<>>

Truthy(x) == x # <<>>

\* ----------------------------------------------------------------- strings
Lower(c) ==
  CASE c = "A" -> "a"
    [] c = "B" -> "b"
    [] c = "J" -> "j"
    [] c = "T" -> "t"
    [] OTHER -> c

LowerStr(s) == [i \in 1..Len(s) |-> Lower(s[i])]

EndsWith(s, e) ==
  /\ Len(e) <= Len(s)
  /\ SubSeq(s, Len(s) - Len(e) + 1, Len(s)) = e

\* Python's `k in s` for strings: k occurs in s as a contiguous substring
Contains(k, s) ==
  \E i \in 1..(Len(s) - Len(k) + 1) : SubSeq(s, i, i + Len(k) - 1) = k

IsSpace(c) == c = " "

RECURSIVE LStrip(_, _)
LStrip(s, cs) ==
  IF s # <<>> /\ Head(s) \in cs THEN LStrip(Tail(s), cs) ELSE s

RECURSIVE RStrip(_, _)
RStrip(s, cs) ==
  IF s # <<>> /\ s[Len(s)] \in cs THEN RStrip(SubSeq(s, 1, Len(s) - 1), cs) ELSE s

StripChars(s, cs) == RStrip(LStrip(s, cs), cs)

Strip(s) == StripChars(s, {" "})

\* str.split(sep): the pieces between the separators, blank pieces included
RECURSIVE SplitAcc(_, _, _)
SplitAcc(s, sep, cur) ==
  IF s = <<>> THEN <<cur>>
  ELSE IF Head(s) = sep THEN <<cur>> \o SplitAcc(Tail(s), sep, <<>>)
  ELSE SplitAcc(Tail(s), sep, Append(cur, Head(s)))

Split(s, sep) == SplitAcc(s, sep, <<>>)

InSeq(x, xs) == \E i \in 1..Len(xs) : xs[i] = x

\* os.path.splitext: the extension starts at the last dot, unless that dot
\* is only preceded by dots (a leading-dot name has no extension)
LastDot(s) ==
  IF \E i \in 1..Len(s) : s[i] = "."
  THEN CHOOSE i \in 1..Len(s) : s[i] = "." /\ \A j \in (i + 1)..Len(s) : s[j] # "."
  ELSE 0

SplitExt(s) ==
  LET d == LastDot(s) IN
  IF d > 0 /\ \E j \in 1..(d - 1) : s[j] # "."
  THEN <<SubSeq(s, 1, d - 1), SubSeq(s, d, Len(s))>>
  ELSE <<s, <<>>>>

\* --------------------------------------------------------------- catalogue
\* The files of the tree. A path p lives in the root directory (1) or in its
\* subdirectory (2); its name, size and modification time are what os.stat
\* and the directory listing report for it.
Paths == 1..MaxFiles

Names ==
  << <<"a", ".", "j">>,
     <<"a", "B", ".", "J">>,
     <<".", "j">> >>

DirOf(p) == ((p - 1) % 2) + 1

NameOf(p) == Names[((p - 1) % Len(Names)) + 1]

SizeOf(p) == ((p - 1) % 3) * MB

DayOf(p) == 9 + (p % 3)

MTimeOf(p) == DayOf(p) * 86400 + 3600

\* datetime.date.fromtimestamp(t): the day the timestamp falls on
DateFromTimestamp(t) == t \div 86400

FilesIn(d) == SelectSeq([i \in 1..MaxFiles |-> i], LAMBDA p : DirOf(p) = d)

\* ---------------------------------------------------------------- criteria
ExtChoices ==
  { <<>>,
    << <<".", "j">> >>,
    << <<".", "J">> >>,
    << <<".", "t">>, <<".", "j">> >> }

KwChoices == { <<>>, << <<"A">> >>, << <<"b">>, <<"z">> >> }

SizeChoices == { None, <<"gt", MB>>, <<"lt", MB>> }

DateChoices == { None, <<"modified", 10>> }

Criteria ==
  [ recursive : BOOLEAN, keywords : KwChoices, extensions : ExtChoices,
    size_filter : SizeChoices, date_filter : DateChoices ]

VARIABLES
  rootKind,         \* "dir" | "leaf" | "notdir" | "unreadable": what root_dir is
  present,          \* the paths that exist: os.stat succeeds on exactly these
  unwritable,       \* destination bases under which makedirs / copy fail
  written,          \* the destination files written so far
  sw,               \* the SearchWorker objects
  aw,               \* the ActionWorker objects
  batch_size,       \* FileManagerApp.batch_size
  search_thread, org_search_thread, action_thread,
  found_files, organizer_files,
  queue,            \* signals queued to the GUI thread, not yet delivered
  call,             \* a single call of a function of the program and its result
  settings_file,    \* the document in SETTINGS_FILE
  presets_file,     \* the document in PRESETS_FILE
  organizer_presets, \* FileManagerApp.organizer_presets
  rule_table        \* the rule records held by the rows of rule_table

vars ==
  << rootKind, present, unwritable, written, sw, aw, batch_size,
     search_thread, org_search_thread, action_thread,
     found_files, organizer_files, queue, call,
     settings_file, presets_file, organizer_presets, rule_table >>

cfgVars == << settings_file, presets_file, organizer_presets, rule_table >>

envVars == << rootKind, present, unwritable >>

appVars ==
  << batch_size, search_thread, org_search_thread, action_thread,
     found_files, organizer_files >>

SWIds == 1..MaxSearchRuns

AWIds == 1..MaxActionRuns

\* ------------------------------------------------------------ SearchWorker
NoWorker == [st |-> "none"]

\* SearchWorker.__init__; `slot` names the GUI slots its signals are
\* connected to ("none" while unconnected). History only: `seen` and
\* `seenCount` record that the loop has read the cleared flag and the count
\* at that moment, `stopPc` and `stopCount` where the run was when stop() was
\* called.
NewSearchWorker(crit, bs, slot) ==
  [ st |-> "running", running |-> TRUE, pc |-> "start",
    recursive |-> crit.recursive, keywords |-> crit.keywords,
    extensions |-> crit.extensions, size_filter |-> crit.size_filter,
    date_filter |-> crit.date_filter, batch_size |-> bs,
    iterator |-> <<>>, di |-> 1, fi |-> 1,
    count |-> 0, current_batch |-> <<>>, out |-> <<>>,
    slot |-> slot, seen |-> FALSE, seenCount |-> 0,
    stopPc |-> "", stopCount |-> 0 ]

\* A signal emitted by a worker thread is queued to the GUI thread. The slots
\* of log_msg and progress write widgets only (the log dialog and the progress
\* bar), so these signals are recorded in the run's `out` and not queued.
Enqueue(q, kind, w, slot, ev) ==
  IF slot = "none" \/ ev.sig \in {"log_msg", "progress"} THEN q
  ELSE Append(q, [kind |-> kind, src |-> w, slot |-> slot, ev |-> ev])

BatchEv(recs) == [sig |-> "batch_found", recs |-> recs]

SearchFinishedEv(n, elapsed) == [sig |-> "finished", count |-> n, elapsed |-> elapsed]

\* line 366
ExtensionPasses(exts, file) ==
  ~Truthy(exts) \/ \E i \in 1..Len(exts) : EndsWith(LowerStr(file), exts[i])

\* line 367
KeywordPasses(kws, file) ==
  ~Truthy(kws) \/ \E i \in 1..Len(kws) : Contains(LowerStr(kws[i]), LowerStr(file))

\* lines 372-375 (TRUE: the file is kept)
SizePasses(sf, st_size) ==
  ~Truthy(sf) \/
    ~( (sf[1] = "gt" /\ st_size <= sf[2]) \/ (sf[1] = "lt" /\ st_size >= sf[2]) )

\* DatePasses keeping only files modified after the day of the filter
DatePasses_StrictlyAfter(df, st_mtime) ==
  ~Truthy(df) \/ ~(df[1] = "modified" /\ DateFromTimestamp(st_mtime) <= df[2])

\* lines 376-379 (TRUE: the file is kept)
DatePasses(df, st_mtime) ==
  ~Truthy(df) \/ ~(df[1] = "modified" /\ DateFromTimestamp(st_mtime) < df[2])

\* SearchKeeps with the keyword test of line 367 left out
SearchKeeps_NoKeyword(s, p, exists) ==
  /\ ExtensionPasses(s.extensions, NameOf(p))
  /\ exists
  /\ SizePasses(s.size_filter, SizeOf(p))
  /\ DatePasses(s.date_filter, MTimeOf(p))

\* The body of the inner loop, lines 366-386, decides whether `p` is appended
\* to current_batch: the two name tests, then os.stat (OSError: continue),
\* then the size and date tests.
SearchKeeps(s, p, exists) ==
  /\ ExtensionPasses(s.extensions, NameOf(p))
  /\ KeywordPasses(s.keywords, NameOf(p))
  /\ exists
  /\ SizePasses(s.size_filter, SizeOf(p))
  /\ DatePasses(s.date_filter, MTimeOf(p))

\* MakeIterator walking the tree whatever the recursive flag is
MakeIterator_AlwaysWalk(recursive, kind) ==
  IF kind = "leaf" THEN <<FilesIn(2)>>
  ELSE IF kind # "dir" THEN <<>>
  ELSE <<FilesIn(1), FilesIn(2)>>

\* lines 352-360: os.walk lists the root and then its subdirectory; the
\* non-recursive scan lists the entries of the root that are files. Every
\* entry of the catalogue is a regular file when it is listed (it may be gone
\* by the time it is stat'ed). An unreadable root gives no iteration at all;
\* a root that is the subdirectory itself ("leaf") lists that directory only.
MakeIterator(recursive, kind) ==
  IF kind = "leaf" THEN <<FilesIn(2)>>
  ELSE IF kind # "dir" THEN <<>>
  ELSE IF recursive THEN <<FilesIn(1), FilesIn(2)>>
  ELSE <<FilesIn(1)>>

\* SW_Begin without the return of line 350
SW_Begin_NoReturn(w) ==
  /\ sw[w].st = "running" /\ sw[w].pc = "start"
  /\ IF rootKind = "notdir"
     THEN /\ sw' = [sw EXCEPT ![w].out = Append(@, SearchFinishedEv(0, "zero")),
                              ![w].di = 1, ![w].pc = "dir"]
          /\ queue' = Enqueue(queue, "sw", w, sw[w].slot, SearchFinishedEv(0, "zero"))
     ELSE /\ sw' = [sw EXCEPT ![w].iterator = MakeIterator(sw[w].recursive, rootKind),
                              ![w].di = 1, ![w].pc = "dir"]
          /\ queue' = queue
  /\ UNCHANGED << call, cfgVars, envVars, written, aw, appVars >>

\* lines 344-360
SW_Begin(w) ==
  /\ sw[w].st = "running" /\ sw[w].pc = "start"
  /\ IF rootKind = "notdir"
     THEN /\ sw' = [sw EXCEPT ![w].out = Append(@, SearchFinishedEv(0, "zero")),
                              ![w].pc = "end", ![w].st = "done"]
          /\ queue' = Enqueue(queue, "sw", w, sw[w].slot, SearchFinishedEv(0, "zero"))
     ELSE /\ sw' = [sw EXCEPT ![w].iterator = MakeIterator(sw[w].recursive, rootKind),
                              ![w].di = 1, ![w].pc = "dir"]
          /\ queue' = queue
  /\ UNCHANGED << call, cfgVars, envVars, written, aw, appVars >>

\* lines 362-363: the outer loop fetches the next directory and reads the flag
SW_NextDir(w) ==
  /\ sw[w].st = "running" /\ sw[w].pc = "dir"
  /\ sw' = IF sw[w].di > Len(sw[w].iterator)
           THEN [sw EXCEPT ![w].pc = "flush"]
           ELSE IF ~sw[w].running
           THEN [sw EXCEPT ![w].pc = "flush",
                           ![w].seenCount = IF sw[w].seen THEN @ ELSE sw[w].count,
                           ![w].seen = TRUE]
           ELSE [sw EXCEPT ![w].pc = "file", ![w].fi = 1]
  /\ UNCHANGED << call, cfgVars, envVars, written, aw, appVars, queue >>

\* SW_NextFile without the flag test of line 365
SW_NextFile_NoFlag(w) ==
  /\ sw[w].st = "running" /\ sw[w].pc = "file"
  /\ sw' = IF sw[w].fi > Len(sw[w].iterator[sw[w].di])
           THEN [sw EXCEPT ![w].pc = "dir", ![w].di = @ + 1]
           ELSE [sw EXCEPT ![w].pc = "body"]
  /\ UNCHANGED << call, cfgVars, envVars, written, aw, appVars, queue >>

\* lines 364-365: the inner loop fetches the next file and reads the flag
SW_NextFile(w) ==
  /\ sw[w].st = "running" /\ sw[w].pc = "file"
  /\ sw' = IF sw[w].fi > Len(sw[w].iterator[sw[w].di])
           THEN [sw EXCEPT ![w].pc = "dir", ![w].di = @ + 1]
           ELSE IF ~sw[w].running
           THEN [sw EXCEPT ![w].pc = "dir", ![w].di = @ + 1,
                           ![w].seenCount = IF sw[w].seen THEN @ ELSE sw[w].count,
                           ![w].seen = TRUE]
           ELSE [sw EXCEPT ![w].pc = "body"]
  /\ UNCHANGED << call, cfgVars, envVars, written, aw, appVars, queue >>

\* SW_Body without the reset of line 385: the emitted batch stays pending
SW_Body_NoReset(w) ==
  /\ sw[w].st = "running" /\ sw[w].pc = "body"
  /\ LET s == sw[w]
         p == s.iterator[s.di][s.fi]
         batch == Append(s.current_batch, p)
     IN IF ~SearchKeeps(s, p, p \in present)
        THEN /\ sw' = [sw EXCEPT ![w].fi = @ + 1, ![w].pc = "file"]
             /\ queue' = queue
        ELSE IF Len(batch) >= s.batch_size
        THEN /\ sw' = [sw EXCEPT ![w].count = @ + 1, ![w].current_batch = batch,
                                 ![w].out = Append(@, BatchEv(batch)),
                                 ![w].fi = @ + 1, ![w].pc = "file"]
             /\ queue' = Enqueue(queue, "sw", w, s.slot, BatchEv(batch))
        ELSE /\ sw' = [sw EXCEPT ![w].count = @ + 1, ![w].current_batch = batch,
                                 ![w].fi = @ + 1, ![w].pc = "file"]
             /\ queue' = queue
  /\ UNCHANGED << call, cfgVars, envVars, written, aw, appVars >>

\* SW_Body with the handler of line 386 outside the loops: the first stat
\* error ends the scan
SW_Body_AbortOnStatError(w) ==
  /\ sw[w].st = "running" /\ sw[w].pc = "body"
  /\ LET s == sw[w]
         p == s.iterator[s.di][s.fi]
         batch == Append(s.current_batch, p)
     IN IF /\ ExtensionPasses(s.extensions, NameOf(p))
           /\ KeywordPasses(s.keywords, NameOf(p))
           /\ p \notin present
        THEN /\ sw' = [sw EXCEPT ![w].pc = "flush"]
             /\ queue' = queue
        ELSE IF ~SearchKeeps(s, p, p \in present)
        THEN /\ sw' = [sw EXCEPT ![w].fi = @ + 1, ![w].pc = "file"]
             /\ queue' = queue
        ELSE IF Len(batch) >= s.batch_size
        THEN /\ sw' = [sw EXCEPT ![w].count = @ + 1, ![w].current_batch = <<>>,
                                 ![w].out = Append(@, BatchEv(batch)),
                                 ![w].fi = @ + 1, ![w].pc = "file"]
             /\ queue' = Enqueue(queue, "sw", w, s.slot, BatchEv(batch))
        ELSE /\ sw' = [sw EXCEPT ![w].count = @ + 1, ![w].current_batch = batch,
                                 ![w].fi = @ + 1, ![w].pc = "file"]
             /\ queue' = queue
  /\ UNCHANGED << call, cfgVars, envVars, written, aw, appVars >>

\* lines 366-386, for the file fetched by SW_NextFile. The comparison of
\* line 383 raises TypeError when batch_size is no number: the handler of
\* line 386 takes OSError only, so run ends there without a signal
SW_Body(w) ==
  /\ sw[w].st = "running" /\ sw[w].pc = "body"
  /\ LET s == sw[w]
         p == s.iterator[s.di][s.fi]
         batch == Append(s.current_batch, p)
     IN IF ~SearchKeeps(s, p, p \in present)
        THEN /\ sw' = [sw EXCEPT ![w].fi = @ + 1, ![w].pc = "file"]
             /\ queue' = queue
        ELSE IF s.batch_size = NotAnInteger
        THEN /\ sw' = [sw EXCEPT ![w].count = @ + 1, ![w].current_batch = batch,
                                 ![w].pc = "end", ![w].st = "raised"]
             /\ queue' = queue
        ELSE IF Len(batch) >= s.batch_size
        THEN /\ sw' = [sw EXCEPT ![w].count = @ + 1, ![w].current_batch = <<>>,
                                 ![w].out = Append(@, BatchEv(batch)),
                                 ![w].fi = @ + 1, ![w].pc = "file"]
             /\ queue' = Enqueue(queue, "sw", w, s.slot, BatchEv(batch))
        ELSE /\ sw' = [sw EXCEPT ![w].count = @ + 1, ![w].current_batch = batch,
                                 ![w].fi = @ + 1, ![w].pc = "file"]
             /\ queue' = queue
  /\ UNCHANGED << call, cfgVars, envVars, written, aw, appVars >>

\* SW_Flush without the emit of line 388: the remainder is dropped
SW_Flush_NoEmit(w) ==
  /\ sw[w].st = "running" /\ sw[w].pc = "flush"
  /\ sw' = [sw EXCEPT ![w].pc = "fin"]
  /\ UNCHANGED << call, cfgVars, envVars, written, aw, appVars, queue >>

\* line 388
SW_Flush(w) ==
  /\ sw[w].st = "running" /\ sw[w].pc = "flush"
  /\ IF Truthy(sw[w].current_batch)
     THEN /\ sw' = [sw EXCEPT ![w].out = Append(@, BatchEv(sw[w].current_batch)),
                              ![w].pc = "fin"]
          /\ queue' = Enqueue(queue, "sw", w, sw[w].slot, BatchEv(sw[w].current_batch))
     ELSE /\ sw' = [sw EXCEPT ![w].pc = "fin"]
          /\ queue' = queue
  /\ UNCHANGED << call, cfgVars, envVars, written, aw, appVars >>

\* line 389, after which run returns and the thread is no longer running
SW_Finish(w) ==
  /\ sw[w].st = "running" /\ sw[w].pc = "fin"
  /\ sw' = [sw EXCEPT ![w].out = Append(@, SearchFinishedEv(sw[w].count, "measured")),
                      ![w].pc = "end", ![w].st = "done"]
  /\ queue' = Enqueue(queue, "sw", w, sw[w].slot, SearchFinishedEv(sw[w].count, "measured"))
  /\ UNCHANGED << call, cfgVars, envVars, written, aw, appVars >>

\* line 391, called from the GUI thread at any moment of the run
SW_Stop(w) ==
  /\ sw[w].st = "running" /\ sw[w].running
  /\ sw' = [sw EXCEPT ![w].running = FALSE,
                      ![w].stopPc = sw[w].pc, ![w].stopCount = sw[w].count]
  /\ UNCHANGED << call, cfgVars, envVars, written, aw, appVars, queue >>

SearchStep(w) ==
  \/ SW_Begin(w)
  \/ SW_NextDir(w)
  \/ SW_NextFile(w)
  \/ SW_Body(w)
  \/ SW_Flush(w)
  \/ SW_Finish(w)

\* ---------------------------------------------------------------- os.path
\* os.path.join(a, b) on POSIX paths
Join2(a, b) ==
  IF b # <<>> /\ Head(b) = "/" THEN b
  ELSE IF a = <<>> \/ a[Len(a)] = "/" THEN a \o b
  ELSE a \o <<"/">> \o b

RECURSIVE JoinFrom(_, _)
JoinFrom(acc, parts) ==
  IF parts = <<>> THEN acc ELSE JoinFrom(Join2(acc, Head(parts)), Tail(parts))

\* os.path.join(*parts), parts non-empty
JoinAll(parts) == JoinFrom(Head(parts), Tail(parts))

RECURSIVE JoinWith(_, _)
JoinWith(parts, sep) ==
  IF parts = <<>> THEN <<>>
  ELSE IF Len(parts) = 1 THEN Head(parts)
  ELSE Head(parts) \o <<sep>> \o JoinWith(Tail(parts), sep)

RECURSIVE NormAcc(_, _, _)
NormAcc(comps, stack, absolute) ==
  IF comps = <<>> THEN stack
  ELSE LET c == Head(comps) IN
       IF c = <<>> \/ c = <<".">> THEN NormAcc(Tail(comps), stack, absolute)
       ELSE IF c = <<".", ".">>
       THEN IF stack # <<>> /\ stack[Len(stack)] # <<".", ".">>
            THEN NormAcc(Tail(comps), SubSeq(stack, 1, Len(stack) - 1), absolute)
            ELSE IF absolute THEN NormAcc(Tail(comps), stack, absolute)
            ELSE NormAcc(Tail(comps), Append(stack, c), absolute)
       ELSE NormAcc(Tail(comps), Append(stack, c), absolute)

\* os.path.normpath on POSIX paths: "" becomes ".", empty and "." components
\* go, ".." removes the component before it, two leading slashes are kept
NormPath(s) ==
  IF s = <<>> THEN <<".">>
  ELSE LET lead == IF Head(s) # "/" THEN <<>>
                   ELSE IF Len(s) >= 2 /\ s[2] = "/" /\ ~(Len(s) >= 3 /\ s[3] = "/")
                   THEN <<"/", "/">>
                   ELSE <<"/">>
           body == JoinWith(NormAcc(Split(s, "/"), <<>>, lead # <<>>), "/")
       IN IF lead \o body = <<>> THEN <<".">> ELSE lead \o body

\* ------------------------------------------------------------------- rules
\* dict.get(key) for a string-valued key: None and "" are both falsy
RuleGetStr(rule, key) == IF key \in DOMAIN rule THEN rule[key] ELSE None

\* dict.get(key) for a number-valued key: None and 0 are both falsy
RuleGetNum(rule, key) == IF key \in DOMAIN rule THEN rule[key] ELSE 0

\* lines 409-412
NamePredicate(rule, fname) ==
  IF Truthy(RuleGetStr(rule, "contains"))
  THEN LET pieces == SelectSeq(Split(rule["contains"], ","), LAMBDA k : Truthy(Strip(k)))
           keywords == [i \in 1..Len(pieces) |-> LowerStr(Strip(pieces[i]))]
       IN ~(Truthy(keywords) /\ ~\E i \in 1..Len(keywords) : Contains(keywords[i], fname))
  ELSE TRUE

\* lines 414-418
ExtPredicate(rule, fname) ==
  IF Truthy(RuleGetStr(rule, "extensions"))
  THEN LET pieces == Split(rule["extensions"], ",")
           exts == [i \in 1..Len(pieces) |-> LowerStr(Strip(pieces[i]))]
           f_ext == SplitExt(fname)[2]
       IN ~(~InSeq(f_ext, exts) /\ ~InSeq(StripChars(f_ext, {"."}), exts))
  ELSE TRUE

\* SizePredicate refusing a size equal to a bound
SizePredicate_Inclusive(rule, st_size) ==
  /\ ~(RuleGetNum(rule, "size_min") # 0 /\ st_size <= rule["size_min"] * MB)
  /\ ~(RuleGetNum(rule, "size_max") # 0 /\ rule["size_max"] > 0
         /\ st_size >= rule["size_max"] * MB)

\* lines 420-422: size_mb = st_size / (1024 * 1024) compared with whole MB
SizePredicate(rule, st_size) ==
  /\ ~(RuleGetNum(rule, "size_min") # 0 /\ st_size < rule["size_min"] * MB)
  /\ ~(RuleGetNum(rule, "size_max") # 0 /\ rule["size_max"] > 0
         /\ st_size > rule["size_max"] * MB)

\* DatePredicate accepting a file modified on the rule's day
DatePredicate_NotBefore(rule, st_mtime) ==
  IF Truthy(RuleGetStr(rule, "date_after"))
  THEN ~(DateFromTimestamp(st_mtime) < rule["date_after"][1])
  ELSE TRUE

\* lines 424-427: date_after is None or a date, held here as <<day>>
DatePredicate(rule, st_mtime) ==
  IF Truthy(RuleGetStr(rule, "date_after"))
  THEN ~(DateFromTimestamp(st_mtime) <= rule["date_after"][1])
  ELSE TRUE

\* matches_rule_at returning right after a passed name test
matches_rule_at_StopAtName(name, st_size, st_mtime, rule) ==
  LET fname == LowerStr(name) IN
  IF Truthy(RuleGetStr(rule, "contains")) THEN NamePredicate(rule, fname)
  ELSE /\ ExtPredicate(rule, fname)
       /\ SizePredicate(rule, st_size)
       /\ DatePredicate(rule, st_mtime)

\* ActionWorker.matches_rule for a file of base name `name` on which os.stat
\* succeeds and reports st_size and st_mtime
matches_rule_at(name, st_size, st_mtime, rule) ==
  LET fname == LowerStr(name) IN
  /\ NamePredicate(rule, fname)
  /\ ExtPredicate(rule, fname)
  /\ SizePredicate(rule, st_size)
  /\ DatePredicate(rule, st_mtime)

\* matches_rule for the file at path p
matches_rule(p, rule) == matches_rule_at(NameOf(p), SizeOf(p), MTimeOf(p), rule)

\* get_size_tier putting a boundary size in the lower tier
get_size_tier_Inclusive(bytes_size) ==
  IF bytes_size <= 1 * MB THEN "Tiny"
  ELSE IF bytes_size <= 10 * MB THEN "Small"
  ELSE IF bytes_size <= 100 * MB THEN "Medium"
  ELSE IF bytes_size <= 1024 * MB THEN "Large"
  ELSE "Huge"

\* ActionWorker.get_size_tier: mb = bytes_size / (1024 * 1024)
get_size_tier(bytes_size) ==
  IF bytes_size < 1 * MB THEN "Tiny"
  ELSE IF bytes_size < 10 * MB THEN "Small"
  ELSE IF bytes_size < 100 * MB THEN "Medium"
  ELSE IF bytes_size < 1024 * MB THEN "Large"
  ELSE "Huge"

\* FirstMatch without the break of line 454: the last matching rule stays
FirstMatch_Last(p, rules) ==
  IF \E k \in 1..Len(rules) : matches_rule(p, rules[k])
  THEN CHOOSE k \in 1..Len(rules) :
         /\ matches_rule(p, rules[k])
         /\ \A j \in (k + 1)..Len(rules) : ~matches_rule(p, rules[j])
  ELSE 0

\* lines 451-454: the index of the rule the loop breaks on, 0 if it runs out
FirstMatch(p, rules) ==
  IF \E k \in 1..Len(rules) : matches_rule(p, rules[k])
  THEN CHOOSE k \in 1..Len(rules) :
         /\ matches_rule(p, rules[k])
         /\ \A j \in 1..(k - 1) : ~matches_rule(p, rules[j])
  ELSE 0

\* ---------------------------------------------------------- destination
Upper(c) ==
  CASE c = "a" -> "A"
    [] c = "b" -> "B"
    [] c = "j" -> "J"
    [] c = "t" -> "T"
    [] OTHER -> c

RECURSIVE Replace(_, _, _)
\* str.replace(tok, val) where tok is one symbol of the pattern
Replace(s, tok, val) ==
  IF s = <<>> THEN <<>>
  ELSE (IF Head(s) = tok THEN val ELSE <<Head(s)>>) \o Replace(Tail(s), tok, val)

\* TwoDigits without the zero padding
TwoDigits_NoPad(n) == ToString(n)

\* f"{n:02d}"
TwoDigits(n) == IF n < 10 THEN "0" \o ToString(n) ELSE ToString(n)

IsLeap(y) == (y % 4 = 0 /\ y % 100 # 0) \/ y % 400 = 0

\* Days of the year before the first of month m, in a common year
DaysBeforeMonth(m) == << 0, 31, 59, 90, 120, 151, 181, 212, 243, 273, 304, 334 >>[m]

\* The proleptic Gregorian date of day z, counted from 1970-01-01
CivilFromDays(z) ==
  LET n == z + 719468
      era == n \div 146097
      doe == n - era * 146097
      yoe == (doe - doe \div 1460 + doe \div 36524 - doe \div 146096) \div 365
      doy == doe - (365 * yoe + yoe \div 4 - yoe \div 100)
      mp == (5 * doy + 2) \div 153
      m == IF mp < 10 THEN mp + 3 ELSE mp - 9
  IN [ year |-> yoe + era * 400 + (IF m <= 2 THEN 1 ELSE 0), month |-> m,
       day |-> doy - (153 * mp + 2) \div 5 + 1 ]

\* ISO weeks of year y whose first of January is weekday jan1 (Monday = 1)
WeeksInYear(y, jan1) == IF jan1 = 4 \/ (jan1 = 3 /\ IsLeap(y)) THEN 53 ELSE 52

\* date.isocalendar()[1] of day z
IsoWeek(z) ==
  LET c == CivilFromDays(z)
      ordinal == DaysBeforeMonth(c.month) + c.day
                   + (IF IsLeap(c.year) /\ c.month > 2 THEN 1 ELSE 0)
      wd == ((z + 3) % 7) + 1
      jan1 == ((z - ordinal + 1 + 3) % 7) + 1
      prevJan1 == ((z - ordinal + 1 - (IF IsLeap(c.year - 1) THEN 366 ELSE 365) + 3) % 7) + 1
      wk == (ordinal - wd + 10) \div 7
  IN IF wk < 1 THEN WeeksInYear(c.year - 1, prevJan1)
     ELSE IF wk > WeeksInYear(c.year, jan1) THEN 1
     ELSE wk

\* datetime.datetime.fromtimestamp(t), with the local time zone taken as UTC;
\* week is isocalendar()[1]
DateTimeOf(t) ==
  LET c == CivilFromDays(t \div 86400)
  IN [year |-> c.year, month |-> c.month, day |-> c.day, week |-> IsoWeek(t \div 86400)]

\* The tokens of the pattern editor, each kept as one symbol
PatternTokens ==
  { "{Year}", "{Month}", "{Day}", "{Week}", "{Ext}", "{Name}", "{First_Letter}",
    "{Size_Tier}" }

\* s[0] of a text whose first symbol is c: a symbol in braces starts with "{"
FirstCharacter(c) == IF c \in PatternTokens \cup {"{Foo}"} THEN "{" ELSE c

\* lines 482-489: the chained replace calls over the values of lines 477-480
SubstituteWith(pattern, dt_mod, f_name, f_ext_clean, st_size) ==
  LET r1 == Replace(pattern, "{Year}", <<ToString(dt_mod.year)>>)
      r2 == Replace(r1, "{Month}", <<TwoDigits(dt_mod.month)>>)
      r3 == Replace(r2, "{Day}", <<TwoDigits(dt_mod.day)>>)
      r4 == Replace(r3, "{Week}", <<TwoDigits(dt_mod.week)>>)
      r5 == Replace(r4, "{Ext}", f_ext_clean)
      r6 == Replace(r5, "{Name}", f_name)
      r7 == Replace(r6, "{First_Letter}",
                    IF Truthy(f_name) THEN <<Upper(FirstCharacter(f_name[1]))>>
                    ELSE <<"_">>)
  IN Replace(r7, "{Size_Tier}", <<get_size_tier(st_size)>>)

\* lines 477-489 for a file with base name `name`, st_mtime and st_size
SubstituteAt(pattern, name, st_mtime, st_size) ==
  SubstituteWith(pattern, DateTimeOf(st_mtime), SplitExt(name)[1],
                 LStrip(SplitExt(name)[2], {"."}), st_size)

\* lines 476-489
Substitute(pattern, p) == SubstituteAt(pattern, NameOf(p), MTimeOf(p), SizeOf(p))

\* RelPathOf with prefix and suffix put on every segment
RelPathOf_DecorateEvery(substituted, prefix, suffix) ==
  LET stripped == LStrip(substituted, {"/", "\\"})
      path_parts == Split(Replace(stripped, "\\", <<"/">>), "/")
  IN JoinAll([k \in 1..Len(path_parts) |-> prefix \o path_parts[k] \o suffix])

\* lines 491-495, applied to the pattern after token substitution
RelPathOf(substituted, prefix, suffix) ==
  LET stripped == LStrip(substituted, {"/", "\\"})
      path_parts == Split(Replace(stripped, "\\", <<"/">>), "/")
      n == Len(path_parts)
      decorated == [path_parts EXCEPT ![n] = prefix \o path_parts[n] \o suffix]
  IN JoinAll(decorated)

\* lines 476-495
RelPath(pattern, prefix, suffix, p) == RelPathOf(Substitute(pattern, p), prefix, suffix)

\* lines 464-465
CleanDestBase(dest) == NormPath(StripChars(Strip(dest), {"\"", "'"}))

\* line 498
FinalDir(dest_base, rel_path) == NormPath(Join2(dest_base, rel_path))

\* line 499
FinalPath(final_dir, p) == Join2(final_dir, NameOf(p))

\* ------------------------------------------------------------ ActionWorker
\* The dict built by RuleEditDialog.get_data (lines 313-325)
RuleData(name, contains, extensions, size_min, size_max, date_after, destination, pattern, prefix, suffix) ==
  [ name |-> name, contains |-> contains, extensions |-> extensions,
    size_min |-> size_min, size_max |-> size_max, date_after |-> date_after,
    destination |-> destination, pattern |-> pattern,
    prefix |-> prefix, suffix |-> suffix ]

\* The synthetic rule of run_manual_action (line 1415)
ManualRule(dest) ==
  [ name |-> "Manual", destination |-> dest, pattern |-> <<>>,
    contains |-> <<>>, extensions |-> <<>> ]

DestOut == <<"/", "o">>

DestUnw == <<"/", "u">>

RuleCatalog ==
  { RuleData("J", <<>>, <<"j">>, 0, 0, None, DestOut,
             <<"{Year}", "/", "{Month}">>, <<>>, <<>>),
    RuleData("All", <<>>, <<>>, 0, 0, None, DestUnw, <<"{Ext}", "/", "{Name}">>,
             <<"p">>, <<"s">>),
    RuleData("Blank", <<>>, <<>>, 0, 0, None, <<" ">>, <<>>, <<>>, <<>>),
    RuleData("Big", <<>>, <<>>, 1, 0, None, <<>>, <<"{Size_Tier}">>, <<>>, <<>>),
    RuleData("New", <<"z", ",", " ", "A">>, <<>>, 0, 0, <<10>>, <<" ", "\"", "/", "o", "\"">>,
             <<"/", "{First_Letter}", "/", "{Day}", "/", "{Name}">>, <<"p">>, <<>>) }

RECURSIVE SeqsUpTo(_, _)
SeqsUpTo(S, n) ==
  IF n = 0 THEN { <<>> }
  ELSE LET shorter == SeqsUpTo(S, n - 1)
       IN shorter \cup { Append(q, x) : q \in shorter, x \in S }

\* ActionWorker.__init__. History only: `applied` and `raised` hold, for each
\* file handled, the index of matched_rule (0: None) and whether the try block
\* raised; `seen`, `stopPc` and `stopI` are as for the SearchWorker.
\* `shared` tells that self.files is the very list object the application
\* holds as organizer_files (run_organizer passes it without copying).
NewActionWorker(files, rules, default_action, slot, shared) ==
  [ st |-> "running", running |-> TRUE, pc |-> "start",
    files |-> files, rules |-> rules, default_action |-> default_action,
    shared |-> shared, total |-> 0, i |-> 0, results |-> [success |-> 0, skipped |-> 0, errors |-> 0],
    out |-> <<>>, slot |-> slot,
    seen |-> FALSE, applied |-> <<>>, raised |-> <<>>,
    stopPc |-> "", stopI |-> 0 ]

LogEv(tag, p) == [sig |-> "log_msg", tag |-> tag, file |-> p]

\* line 469: the line names the rule, not the file
SkipNoDestEv(rule_name) == [sig |-> "log_msg", tag |-> "SKIP", file |-> 0, rule |-> rule_name]

ErrorEv(p, reason) == [sig |-> "log_msg", tag |-> "ERROR", file |-> p, reason |-> reason]

ProgressEv(v, label) == [sig |-> "progress", value |-> v, label |-> label]

ActionFinishedEv(results) == [sig |-> "finished", results |-> results]

\* Percent counting one file more than have been handled
Percent_OneAhead(k, total) == ((k + 1) * 100) \div total

\* int((k / total) * 100)
Percent(k, total) == (k * 100) \div total

Outcome(results, evs, moved, wrote, applied, raised) ==
  [ results |-> results, evs |-> evs, moved |-> moved, wrote |-> wrote,
    applied |-> applied, raised |-> raised ]

\* lines 517-519: the handler of whatever the try block raised
Caught(results, evs, moved, wrote, applied, p, reason) ==
  Outcome([results EXCEPT !.errors = @ + 1], Append(evs, ErrorEv(p, reason)),
          moved, wrote, applied, TRUE)

\* lines 501-519: the directory is created, the file transferred and the
\* success reported
TransferStage(a, unw, m, dest_base, final_dir) ==
  LET p == a.files[a.i + 1]
      rule == a.rules[m]
      moved == a.default_action = "move"
      action_str == IF moved THEN "Moved" ELSE "Copied"
      wrote == << [path |-> FinalPath(final_dir, p), src |-> p] >>
  IN
  IF dest_base \in unw
  THEN Caught(a.results, << LogEv("ACTION", p) >>, FALSE, <<>>, m, p, "OSError")
  ELSE IF "name" \notin DOMAIN rule
  THEN Caught([a.results EXCEPT !.success = @ + 1], << LogEv("ACTION", p) >>,
              moved, wrote, m, p, "KeyError")
  ELSE Outcome([a.results EXCEPT !.success = @ + 1],
               << LogEv("ACTION", p),
                  ProgressEv(Percent(a.i + 1, a.total), action_str),
                  LogEv("SUCCESS", p) >>,
               moved, wrote, m, FALSE)

\* lines 467-499: the file is skipped when dest_base is falsy; otherwise the
\* destination directory is computed (matched_rule is a rule here: dest_base
\* is falsy whenever matched_rule is)
DestinationStage(a, exists, unw, m, matched, dest_base) ==
  LET p == a.files[a.i + 1]
      rule == IF m # 0 THEN a.rules[m] ELSE <<>>
      skipped == [a.results EXCEPT !.skipped = @ + 1]
  IN
  IF ~Truthy(dest_base)
  THEN IF ~matched
       THEN Caught(skipped, <<>>, FALSE, <<>>, m, p, "TypeError")
       ELSE IF "name" \notin DOMAIN rule
       THEN Caught(skipped, <<>>, FALSE, <<>>, m, p, "KeyError")
       ELSE Outcome(skipped, << SkipNoDestEv(rule["name"]) >>, FALSE, <<>>, m, FALSE)
  ELSE IF "pattern" \notin DOMAIN rule
  THEN Caught(a.results, <<>>, FALSE, <<>>, m, p, "KeyError")
  ELSE IF p \notin exists
  THEN Caught(a.results, <<>>, FALSE, <<>>, m, p, "FileNotFoundError")
  ELSE TransferStage(a, unw, m, dest_base,
         FinalDir(dest_base,
                  RelPath(rule["pattern"], RuleGetStr(rule, "prefix"),
                          RuleGetStr(rule, "suffix"), p)))

\* MatchedStage without the branch of lines 456-460: an unmatched file goes on
\* to the destination test
MatchedStage_NoContinue(a, exists, unw, m) ==
  LET p == a.files[a.i + 1]
      matched == m # 0 /\ DOMAIN a.rules[m] # {}
  IN
  IF matched /\ "destination" \notin DOMAIN a.rules[m]
  THEN Caught(a.results, <<>>, FALSE, <<>>, m, p, "KeyError")
  ELSE DestinationStage(a, exists, unw, m, matched,
         IF ~matched THEN None
         ELSE IF Truthy(a.rules[m]["destination"])
         THEN CleanDestBase(a.rules[m]["destination"])
         ELSE a.rules[m]["destination"])

\* lines 456-465, with m the index of the rule the matching loop stopped on
\* (0: none). An empty dict is falsy, like None.
MatchedStage(a, exists, unw, m) ==
  LET p == a.files[a.i + 1]
      matched == m # 0 /\ DOMAIN a.rules[m] # {}
  IN
  IF Truthy(a.rules) /\ ~matched
  THEN Outcome([a.results EXCEPT !.skipped = @ + 1],
               << LogEv("SKIP", p), ProgressEv(Percent(a.i, a.total), "Skipped") >>,
               FALSE, <<>>, 0, FALSE)
  ELSE IF matched /\ "destination" \notin DOMAIN a.rules[m]
  THEN Caught(a.results, <<>>, FALSE, <<>>, m, p, "KeyError")
  ELSE DestinationStage(a, exists, unw, m, matched,
         IF ~matched THEN None
         ELSE IF Truthy(a.rules[m]["destination"])
         THEN CleanDestBase(a.rules[m]["destination"])
         ELSE a.rules[m]["destination"])

\* lines 445-519: the try block for the i-th file (i counts from 0) and its
\* handler. `exists` is the set of paths os.stat finds, `unw` the destination
\* bases under which os.makedirs raises. matches_rule stats the file, so with
\* rules a missing file raises in the matching loop.
ProcessFile(a, exists, unw) ==
  IF Truthy(a.rules) /\ a.files[a.i + 1] \notin exists
  THEN Caught(a.results, <<>>, FALSE, <<>>, 0, a.files[a.i + 1], "FileNotFoundError")
  ELSE MatchedStage(a, exists, unw,
         IF Truthy(a.rules) THEN FirstMatch(a.files[a.i + 1], a.rules) ELSE 0)

RECURSIVE EnqueueAll(_, _, _, _, _)
EnqueueAll(q, kind, w, slot, evs) ==
  IF evs = <<>> THEN q
  ELSE EnqueueAll(Enqueue(q, kind, w, slot, Head(evs)), kind, w, slot, Tail(evs))

\* lines 439-441
AW_Begin(w) ==
  /\ aw[w].st = "running" /\ aw[w].pc = "start"
  /\ aw' = [aw EXCEPT ![w].total = Len(aw[w].files),
                      ![w].out = Append(@, LogEv("STARTING", 0)), ![w].pc = "loop"]
  /\ queue' = Enqueue(queue, "aw", w, aw[w].slot, LogEv("STARTING", 0))
  /\ UNCHANGED << call, cfgVars, envVars, written, sw, appVars >>

\* AW_NextFile without the flag test of line 444
AW_NextFile_NoFlag(w) ==
  /\ aw[w].st = "running" /\ aw[w].pc = "loop"
  /\ aw' = IF aw[w].i >= Len(aw[w].files)
           THEN [aw EXCEPT ![w].pc = "fin"]
           ELSE [aw EXCEPT ![w].pc = "body"]
  /\ UNCHANGED << call, cfgVars, envVars, written, sw, appVars, queue >>

\* lines 443-444: the loop fetches the next file and reads the flag
AW_NextFile(w) ==
  /\ aw[w].st = "running" /\ aw[w].pc = "loop"
  /\ aw' = IF aw[w].i >= Len(aw[w].files)
           THEN [aw EXCEPT ![w].pc = "fin"]
           ELSE IF ~aw[w].running
           THEN [aw EXCEPT ![w].pc = "fin", ![w].seen = TRUE]
           ELSE [aw EXCEPT ![w].pc = "body"]
  /\ UNCHANGED << call, cfgVars, envVars, written, sw, appVars, queue >>

\* AW_Apply with the handler of line 517 outside the loop: the first
\* exception ends the batch
AW_Apply_AbortOnError(w, o) ==
  /\ aw' = [aw EXCEPT ![w].results = o.results,
                      ![w].out = @ \o o.evs,
                      ![w].applied = Append(@, o.applied),
                      ![w].raised = Append(@, o.raised),
                      ![w].i = @ + 1,
                      ![w].pc = IF o.raised THEN "fin" ELSE "loop"]
  /\ queue' = EnqueueAll(queue, "aw", w, aw[w].slot, o.evs)
  /\ present' = IF o.moved THEN present \ {aw[w].files[aw[w].i + 1]} ELSE present
  /\ written' = written \o o.wrote

\* AW_Apply with a move that leaves the source behind
AW_Apply_KeepSource(w, o) ==
  /\ aw' = [aw EXCEPT ![w].results = o.results,
                      ![w].out = @ \o o.evs,
                      ![w].applied = Append(@, o.applied),
                      ![w].raised = Append(@, o.raised),
                      ![w].i = @ + 1, ![w].pc = "loop"]
  /\ queue' = EnqueueAll(queue, "aw", w, aw[w].slot, o.evs)
  /\ present' = present
  /\ written' = written \o o.wrote

\* The state after the try block of one file has produced outcome o
AW_Apply(w, o) ==
  /\ aw' = [aw EXCEPT ![w].results = o.results,
                      ![w].out = @ \o o.evs,
                      ![w].applied = Append(@, o.applied),
                      ![w].raised = Append(@, o.raised),
                      ![w].i = @ + 1, ![w].pc = "loop"]
  /\ queue' = EnqueueAll(queue, "aw", w, aw[w].slot, o.evs)
  /\ present' = IF o.moved THEN present \ {aw[w].files[aw[w].i + 1]} ELSE present
  /\ written' = written \o o.wrote

\* lines 445-519 for the file fetched by AW_NextFile
AW_Body(w) ==
  /\ aw[w].st = "running" /\ aw[w].pc = "body"
  /\ AW_Apply(w, ProcessFile(aw[w], present, unwritable))
  /\ UNCHANGED << call, cfgVars, rootKind, unwritable, sw, appVars >>

\* lines 521-522, after which run returns
AW_Finish(w) ==
  /\ aw[w].st = "running" /\ aw[w].pc = "fin"
  /\ LET evs == << ProgressEv(100, "Done."), ActionFinishedEv(aw[w].results) >>
     IN /\ aw' = [aw EXCEPT ![w].out = @ \o evs, ![w].pc = "end", ![w].st = "done"]
        /\ queue' = EnqueueAll(queue, "aw", w, aw[w].slot, evs)
  /\ UNCHANGED << call, cfgVars, envVars, written, sw, appVars >>

\* line 524
AW_Stop(w) ==
  /\ aw[w].st = "running" /\ aw[w].running
  /\ aw' = [aw EXCEPT ![w].running = FALSE,
                      ![w].stopPc = aw[w].pc, ![w].stopI = aw[w].i]
  /\ UNCHANGED << call, cfgVars, envVars, written, sw, appVars, queue >>

ActionStep(w) ==
  \/ AW_Begin(w)
  \/ AW_NextFile(w)
  \/ AW_Body(w)
  \/ AW_Finish(w)

\* ------------------------------------------------------------------- runs
NoThread == 0

\* No function call is under examination
NoCall == [op |-> "none"]

\* FileManagerApp.__init__, lines 534 and 550-552
\* No document in SETTINGS_FILE or PRESETS_FILE
Absent == [kind |-> "absent"]

\* No settings or presets stored, no profile in memory, no rule row
ConfigIdle ==
  /\ settings_file = Absent /\ presets_file = Absent
  /\ organizer_presets = <<>> /\ rule_table = <<>>

AppIdle ==
  /\ batch_size = DefaultBatchSize
  /\ search_thread = NoThread /\ org_search_thread = NoThread
  /\ action_thread = NoThread
  /\ found_files = <<>> /\ organizer_files = <<>>
  /\ queue = <<>>

\* One SearchWorker, constructed and started on its own
InitSearch ==
  /\ rootKind \in {"dir", "leaf", "notdir", "unreadable"}
  /\ present \in SUBSET Paths
  /\ unwritable = {}
  /\ written = <<>>
  /\ \E crit \in Criteria, bs \in 1..MaxBatch :
       sw = [w \in SWIds |-> IF w = 1 THEN NewSearchWorker(crit, bs, "none") ELSE NoWorker]
  /\ aw = [w \in AWIds |-> NoWorker]
  /\ AppIdle
  /\ call = NoCall
  /\ ConfigIdle

\* One ActionWorker, constructed and started on its own
InitAction ==
  /\ rootKind = "dir"
  /\ present \in SUBSET Paths
  /\ unwritable \in { {}, {DestUnw} }
  /\ written = <<>>
  /\ sw = [w \in SWIds |-> NoWorker]
  /\ \E n \in 1..MaxFiles,
        rules \in SeqsUpTo(RuleCatalog, MaxRules) \cup { << ManualRule(DestOut) >> },
        mode \in {"copy", "move"} :
       aw = [w \in AWIds |->
               IF w = 1 THEN NewActionWorker([k \in 1..n |-> k], rules, mode, "none", FALSE)
               ELSE NoWorker]
  /\ AppIdle
  /\ call = NoCall
  /\ ConfigIdle

Init == InitSearch \/ InitAction

Next ==
  \/ \E w \in SWIds : SearchStep(w)
  \/ \E w \in SWIds : SW_Stop(w)
  \/ \E w \in AWIds : ActionStep(w)
  \/ \E w \in AWIds : AW_Stop(w)

Spec == Init /\ [][Next]_vars

\* The runs of one SearchWorker on its own
NextSearch ==
  \/ \E w \in SWIds : SearchStep(w)
  \/ \E w \in SWIds : SW_Stop(w)

SpecSearch == InitSearch /\ [][NextSearch]_vars

\* ---------------------------------------------------------- FileManagerApp
IsDigit(c) == c \in {"0", "1", "2"}

DigitVal(c) == CASE c = "0" -> 0 [] c = "1" -> 1 [] c = "2" -> 2

\* str.isdigit()
IsDigits(t) == t # <<>> /\ \A i \in 1..Len(t) : IsDigit(t[i])

RECURSIVE IntOf(_)
\* int(t) for a string of digits
IntOf(t) == IF t = <<>> THEN 0 ELSE 10 * IntOf(SubSeq(t, 1, Len(t) - 1)) + DigitVal(t[Len(t)])

\* line 1105 and line 1219
ParseKeywords(text) ==
  LET pieces == SelectSeq(Split(text, ","), LAMBDA k : Truthy(Strip(k)))
  IN [i \in 1..Len(pieces) |-> Strip(pieces[i])]

\* lines 1106-1107 and lines 1220-1221
ParseExtensions(text) ==
  LET pieces == SelectSeq(Split(text, ","), LAMBDA e : Truthy(Strip(e)))
  IN [i \in 1..Len(pieces) |->
        IF Head(Strip(pieces[i])) = "." THEN Strip(pieces[i])
        ELSE <<".">> \o Strip(pieces[i])]

\* lines 1109-1111
ParseSizeFilter(s_idx, text) ==
  IF s_idx > 0 /\ IsDigits(text) /\ IntOf(text) * 1048576 # 0
  THEN << (IF s_idx = 1 THEN "gt" ELSE "lt"), IntOf(text) * 1048576 >>
  ELSE None

\* lines 1113-1114 and line 1222
ParseDateFilter(enabled, date) == IF enabled THEN <<"modified", date>> ELSE None

\* What the widgets of the search page (and of the organizer page, which has
\* no size row and always searches recursively) hold when a search starts
UiChoices ==
  { [recursive |-> r, keyword |-> <<>>, ext |-> e, s_idx |-> 0, size |-> <<>>,
     d_idx |-> 0, date |-> 10] : r \in {TRUE}, e \in { <<"j">> } }

\* Worker objects created so far
Started ==
  Cardinality({ w \in SWIds : sw[w].st # "none" })
    + Cardinality({ w \in AWIds : aw[w].st # "none" })

FreeSW == IF Started < MaxAppWorkers THEN { w \in SWIds : sw[w].st = "none" } ELSE {}

FreeAW == IF Started < MaxAppWorkers THEN { w \in AWIds : aw[w].st = "none" } ELSE {}

Lowest(S) == CHOOSE x \in S : \A y \in S : x <= y

\* QThread.isRunning()
SWIsRunning(w) == w # NoThread /\ sw[w].st = "running"

AWIsRunning(w) == w # NoThread /\ aw[w].st = "running"

\* worker.stop() on the workers of S (history fields as in SW_Stop)
StopSearchWorkers(f, S) ==
  [w \in SWIds |->
     IF w \in S
     THEN [f[w] EXCEPT !.running = FALSE,
                       !.stopPc = IF f[w].running THEN f[w].pc ELSE @,
                       !.stopCount = IF f[w].running THEN f[w].count ELSE @]
     ELSE f[w]]

StopActionWorkers(f, S) ==
  [w \in AWIds |->
     IF w \in S
     THEN [f[w] EXCEPT !.running = FALSE,
                       !.stopPc = IF f[w].running THEN f[w].pc ELSE @,
                       !.stopI = IF f[w].running THEN f[w].i ELSE @]
     ELSE f[w]]

\* lines 1093-1120. The guard of line 1095 holds: the root is a directory.
start_search(ui) ==
  /\ rootKind \in {"dir", "leaf"}
  /\ FreeSW # {}
  /\ LET new == Lowest(FreeSW)
         crit == [ recursive |-> ui.recursive,
                   keywords |-> ParseKeywords(ui.keyword),
                   extensions |-> ParseExtensions(ui.ext),
                   size_filter |-> ParseSizeFilter(ui.s_idx, ui.size),
                   date_filter |-> ParseDateFilter(ui.d_idx > 0, ui.date) ]
         stopped == StopSearchWorkers(sw, IF SWIsRunning(search_thread)
                                          THEN {search_thread} ELSE {})
     IN /\ sw' = [stopped EXCEPT ![new] = NewSearchWorker(crit, batch_size, "views")]
        /\ search_thread' = new
  /\ found_files' = <<>>
  /\ UNCHANGED << call, cfgVars, envVars, written, aw, batch_size, org_search_thread, action_thread,
                  organizer_files, queue >>

\* lines 1210-1227 on the worker table f; organizer_files is rebound to a new
\* list, so no ActionWorker shares the application's list any more
OrganizerSearchStarted(f, ui) ==
  LET new == Lowest(FreeSW)
      crit == [ recursive |-> TRUE,
                keywords |-> ParseKeywords(ui.keyword),
                extensions |-> ParseExtensions(ui.ext),
                size_filter |-> None,
                date_filter |-> ParseDateFilter(ui.d_idx > 0, ui.date) ]
      stopped == StopSearchWorkers(f, IF SWIsRunning(org_search_thread)
                                      THEN {org_search_thread} ELSE {})
  IN /\ sw' = [stopped EXCEPT ![new] = NewSearchWorker(crit, batch_size, "org")]
     /\ org_search_thread' = new
     /\ organizer_files' = <<>>
     /\ aw' = [w \in AWIds |-> IF aw[w].st = "none" THEN aw[w]
                               ELSE [aw[w] EXCEPT !.shared = FALSE]]

\* lines 1210-1227, run by the timer of schedule_organizer_search
start_organizer_search(ui) ==
  /\ rootKind \in {"dir", "leaf"}
  /\ FreeSW # {}
  /\ OrganizerSearchStarted(sw, ui)
  /\ UNCHANGED << call, cfgVars, envVars, written, batch_size, search_thread, action_thread,
                  found_files, queue >>

\* lines 1070-1077
stop_operations ==
  /\ sw' = StopSearchWorkers(sw, { w \in {search_thread, org_search_thread} : SWIsRunning(w) })
  /\ aw' = StopActionWorkers(aw, { w \in {action_thread} : AWIsRunning(w) })
  /\ UNCHANGED << call, cfgVars, envVars, written, appVars, queue >>

\* lines 1347-1381: all files of the preview (the list itself is handed to
\* the worker) or the selected ones (a new list); here every item is selected
run_organizer(rules, action, selected_only) ==
  /\ organizer_files # <<>>
  /\ rules # <<>>
  /\ FreeAW # {}
  /\ LET new == Lowest(FreeAW)
     IN /\ aw' = [aw EXCEPT ![new] =
                    NewActionWorker(organizer_files, rules, action, "organizer",
                                    ~selected_only)]
        /\ action_thread' = new
  /\ UNCHANGED << call, cfgVars, envVars, written, sw, batch_size, search_thread, org_search_thread,
                  found_files, organizer_files, queue >>

\* lines 1414-1425, called by action_copy / action_move with the selected
\* files of the result view (here: all of them) and the chosen folder
run_manual_action(files, dest, mode) ==
  /\ files # <<>>
  /\ FreeAW # {}
  /\ LET new == Lowest(FreeAW)
     IN /\ aw' = [aw EXCEPT ![new] =
                    NewActionWorker(files, << ManualRule(dest) >>, mode, "manual", FALSE)]
        /\ action_thread' = new
  /\ UNCHANGED << call, cfgVars, envVars, written, sw, batch_size, search_thread, org_search_thread,
                  found_files, organizer_files, queue >>

\* The GUI thread takes the oldest queued signal and runs the slot connected
\* to it: add_batch_to_views (lines 1122-1155), finish_search (1166-1169),
\* add_batch_to_org_tree (1229-1242), organizer_search_finished (1244-1249),
\* the progress and log slots, or action_finished (1383-1395), which ends by
\* calling start_organizer_search.
Deliver(ui) ==
  /\ queue # <<>>
  /\ queue' = Tail(queue)
  /\ LET e == Head(queue) IN
     IF e.slot = "views" /\ e.ev.sig = "batch_found"
     THEN /\ found_files' = found_files \o e.ev.recs
          /\ UNCHANGED << call, cfgVars, envVars, written, sw, aw, batch_size, search_thread,
                          org_search_thread, action_thread, organizer_files >>
     ELSE IF e.slot = "org" /\ e.ev.sig = "batch_found"
     THEN /\ organizer_files' = organizer_files \o e.ev.recs
          /\ aw' = [w \in AWIds |->
                      IF aw[w].st # "none" /\ aw[w].shared
                      THEN [aw[w] EXCEPT !.files = @ \o e.ev.recs]
                      ELSE aw[w]]
          /\ UNCHANGED << call, cfgVars, envVars, written, sw, batch_size, search_thread,
                          org_search_thread, action_thread, found_files >>
     ELSE IF e.slot = "organizer" /\ e.ev.sig = "finished"
     THEN /\ FreeSW # {}
          /\ OrganizerSearchStarted(sw, ui)
          /\ UNCHANGED << call, cfgVars, envVars, written, batch_size, search_thread, action_thread,
                          found_files >>
     ELSE UNCHANGED << call, cfgVars, envVars, written, sw, aw, appVars >>

InitApp ==
  /\ rootKind = "leaf"
  /\ present = Paths
  /\ unwritable = {}
  /\ written = <<>>
  /\ sw = [w \in SWIds |-> NoWorker]
  /\ aw = [w \in AWIds |-> NoWorker]
  /\ batch_size \in {1, DefaultBatchSize}
  /\ search_thread = NoThread /\ org_search_thread = NoThread
  /\ action_thread = NoThread
  /\ found_files = <<>> /\ organizer_files = <<>>
  /\ queue = <<>>
  /\ call = NoCall
  /\ ConfigIdle

NextApp ==
  \/ \E ui \in UiChoices : start_search(ui)
  \/ \E ui \in UiChoices : start_organizer_search(ui)
  \/ stop_operations
  \/ \E rules \in { <<r>> : r \in { x \in RuleCatalog : x.name = "J" } },
        action \in {"copy"},
        selected_only \in BOOLEAN : run_organizer(rules, action, selected_only)
  \/ \E mode \in {"move"} : run_manual_action(found_files, DestOut, mode)
  \/ \E ui \in UiChoices : Deliver(ui)
  \/ \E w \in SWIds : SearchStep(w)
  \/ \E w \in AWIds : ActionStep(w)

SpecApp == InitApp /\ [][NextApp]_vars

\* ------------------------------------------------------------------- calls
\* Single calls of matches_rule, of get_size_tier and of the size and date
\* filter of a search, on base names, stat results and settings chosen here.
CallNames ==
  { <<"a", ".", "j">>, <<"a", "B", ".", "J">>, <<".", "j">>, <<"a">>, <<"b", ".", "t">> }

CallSizes == { 0, MB - 1, MB, MB + 1, 5 * MB, 10 * MB }

\* 23:59:59 of day 9, 00:00:00 and 12:00:00 of day 10, 00:00:00 of day 11
CallTimes == { 9 * 86400 + 86399, 10 * 86400, 10 * 86400 + 43200, 11 * 86400 }

TierSizes ==
  { 0, MB - 1, MB, 10 * MB - 1, 10 * MB, 100 * MB - 1, 100 * MB,
    1024 * MB - 1, 1024 * MB, 1024 * MB + 1 }

\* What the rule dialog can put in a rule's criteria (get_data, lines 316-320)
CallRules ==
  [ contains : { None, <<"B">>, <<"z", ",", " ", "A">>, <<",", " ">>, <<"t">> },
    extensions : { None, <<"j">>, <<".", "J">>, <<"t", ",", " ", "j">>, <<"j", ",">> },
    size_min : {0, 1, 10},
    size_max : {0, 1, 5},
    date_after : { None, <<10>> } ]

\* What the size row and the date row of the search page can hold
SizeTexts == { <<>>, <<"0">>, <<"1">>, <<"1", "0">> }

\* Patterns of the pattern editor; "{Foo}" is a token the code does not know
SubstPatterns ==
  { <<"{Year}", "/", "{Name}">>, <<"{Ext}">>, <<"{Name}", "-", "{Foo}">>,
    <<"{First_Letter}", "{Size_Tier}">>, <<"{Day}", "{Week}", "{Month}", "x">>,
    <<"{Ext}", "/", "{Name}">> }

\* Base names, some of them spelling a token in the stem or in the extension
SubstNames ==
  { <<"a", ".", "j">>, <<".", "j">>, <<"x", ".", "{Name}">>, <<"x", ".", "{Year}">>,
    <<"{Size_Tier}", ".", "j">>, <<"{First_Letter}", ".", "j">>, <<"{Foo}">> }

PendingCalls ==
  [ op : {"matches_rule"}, name : CallNames, st_size : CallSizes, st_mtime : CallTimes,
    rule : CallRules, done : {FALSE}, ret : {FALSE} ]
  \cup [ op : {"get_size_tier"}, bytes_size : TierSizes, done : {FALSE}, ret : {""} ]
  \cup [ op : {"search_filter"}, s_idx : 0..2, size_text : SizeTexts,
         d_enabled : BOOLEAN, date : {10}, st_size : CallSizes, st_mtime : CallTimes,
         done : {FALSE}, ret : {FALSE} ]
  \cup [ op : {"preview_rule"}, name : CallNames, st_size : CallSizes,
         st_mtime : CallTimes, rule : CallRules, done : {FALSE}, ret : {FALSE} ]
  \cup [ op : {"substitute"}, pattern : SubstPatterns, name : SubstNames,
         st_mtime : {10 * 86400}, st_size : {0, 5 * MB}, done : {FALSE}, ret : {<<>>} ]

\* ActionWorker.matches_rule called once
Call_matches_rule ==
  /\ call.op = "matches_rule" /\ ~call.done
  /\ call' = [call EXCEPT !.done = TRUE,
                          !.ret = matches_rule_at(call.name, call.st_size, call.st_mtime,
                                                  call.rule)]
  /\ UNCHANGED << cfgVars, envVars, written, sw, aw, appVars, queue >>

\* ActionWorker.get_size_tier called once
Call_get_size_tier ==
  /\ call.op = "get_size_tier" /\ ~call.done
  /\ call' = [call EXCEPT !.done = TRUE, !.ret = get_size_tier(call.bytes_size)]
  /\ UNCHANGED << cfgVars, envVars, written, sw, aw, appVars, queue >>

\* The size and date filter as start_search builds them (lines 1109-1114) and
\* as SearchWorker.run applies them to one stat result (lines 372-379);
\* ret: the file is kept
Call_search_filter ==
  /\ call.op = "search_filter" /\ ~call.done
  /\ call' = [call EXCEPT
                !.done = TRUE,
                !.ret = /\ SizePasses(ParseSizeFilter(call.s_idx, call.size_text),
                                      call.st_size)
                        /\ DatePasses(ParseDateFilter(call.d_enabled, call.date),
                                      call.st_mtime)]
  /\ UNCHANGED << cfgVars, envVars, written, sw, aw, appVars, queue >>

\* preview_rule for a rule (lines 1254-1277): the keyword, extension and date
\* rows are set from the rule, the date picker to the day of date_after, and
\* start_organizer_search (lines 1219-1224) starts a recursive search with
\* no size filter; ret: the search keeps a file with this name and stat
\* result (lines 366-379)
Call_preview_rule ==
  /\ call.op = "preview_rule" /\ ~call.done
  /\ LET rule == call.rule
         keywords == ParseKeywords(RuleGetStr(rule, "contains"))
         exts == ParseExtensions(RuleGetStr(rule, "extensions"))
         date_filter == IF Truthy(RuleGetStr(rule, "date_after"))
                        THEN ParseDateFilter(TRUE, rule["date_after"][1])
                        ELSE ParseDateFilter(FALSE, 0)
     IN call' = [call EXCEPT
                   !.done = TRUE,
                   !.ret = /\ ExtensionPasses(exts, call.name)
                           /\ KeywordPasses(keywords, call.name)
                           /\ SizePasses(None, call.st_size)
                           /\ DatePasses(date_filter, call.st_mtime)]
  /\ UNCHANGED << cfgVars, envVars, written, sw, aw, appVars, queue >>

\* The chained replace of lines 482-489 applied once to a pattern
Call_substitute ==
  /\ call.op = "substitute" /\ ~call.done
  /\ call' = [call EXCEPT !.done = TRUE,
                          !.ret = SubstituteAt(call.pattern, call.name, call.st_mtime,
                                               call.st_size)]
  /\ UNCHANGED << cfgVars, envVars, written, sw, aw, appVars, queue >>

\* A rule whose only criterion is a minimum size, with a destination
SizeRule(size_min) ==
  RuleData("Size", <<>>, <<>>, size_min, 0, None, DestOut, <<>>, <<>>, <<>>)

SizeRuleMins == {1, 2, 10}

\* One function is about to be called
InitCall ==
  /\ rootKind = "dir"
  /\ present = Paths
  /\ unwritable = {}
  /\ written = <<>>
  /\ sw = [w \in SWIds |-> NoWorker]
  /\ aw = [w \in AWIds |-> NoWorker]
  /\ AppIdle
  /\ call \in PendingCalls
  /\ ConfigIdle

\* One ActionWorker started on one existing file with a size rule as its
\* only rule
InitOneFileRun ==
  /\ rootKind = "dir"
  /\ present = Paths
  /\ unwritable = {}
  /\ written = <<>>
  /\ sw = [w \in SWIds |-> NoWorker]
  /\ \E p \in Paths, size_min \in SizeRuleMins, mode \in {"copy", "move"} :
       aw = [w \in AWIds |->
               IF w = 1
               THEN NewActionWorker(<<p>>, << SizeRule(size_min) >>, mode, "none", FALSE)
               ELSE NoWorker]
  /\ AppIdle
  /\ call = NoCall
  /\ ConfigIdle

\* One ActionWorker started on two existing files of the same base name in
\* two folders, with one destination for both
InitSameNameRun ==
  /\ rootKind = "dir"
  /\ unwritable = {}
  /\ written = <<>>
  /\ sw = [w \in SWIds |-> NoWorker]
  /\ \E p \in Paths, mode \in {"copy", "move"} :
       /\ present = {p, p + Len(Names)}
       /\ aw = [w \in AWIds |->
                  IF w = 1
                  THEN NewActionWorker(<<p, p + Len(Names)>>, << ManualRule(DestOut) >>,
                                       mode, "none", FALSE)
                  ELSE NoWorker]
  /\ AppIdle
  /\ call = NoCall
  /\ ConfigIdle

InitCalls == InitCall \/ InitOneFileRun \/ InitSameNameRun

NextCalls ==
  \/ Call_matches_rule
  \/ Call_get_size_tier
  \/ Call_search_filter
  \/ Call_preview_rule
  \/ Call_substitute
  \/ \E w \in AWIds : ActionStep(w)

SpecCalls == InitCalls /\ [][NextCalls]_vars

\* ------------------------------------------------------------ json files
\* A document of SETTINGS_FILE or PRESETS_FILE is absent, is text that
\* json.load rejects, or is JSON: an object is held as the sequence of its
\* members in the order of the text, each value in its JSON spelling
Garbage == [kind |-> "garbage"]

JsonNull == <<"n", "u", "l", "l">>

DecimalDigits == <<"0", "1", "2", "3", "4", "5", "6", "7", "8", "9">>

RECURSIVE JsonDigits(_)
\* The decimal spelling of a natural number
JsonDigits(n) ==
  IF n < 10 THEN <<DecimalDigits[n + 1]>>
  ELSE JsonDigits(n \div 10) \o <<DecimalDigits[(n % 10) + 1]>>

\* json.dump of an int
JsonInt(n) == IF n < 0 THEN <<"-">> \o JsonDigits(0 - n) ELSE JsonDigits(n)

\* Escape writing every symbol as it is
Escape_Nothing(str) == str

RECURSIVE Escape(_)
\* The body of a JSON string: a quote or a backslash gets a backslash in front
Escape(str) ==
  IF str = <<>> THEN <<>>
  ELSE (IF Head(str) \in {"\"", "\\"} THEN <<"\\", Head(str)>> ELSE <<Head(str)>>)
       \o Escape(Tail(str))

\* json.dump of a str
JsonString(str) == <<"\"">> \o Escape(str) \o <<"\"">>

RECURSIVE Unescape(_)
\* The text a JSON string body spells
Unescape(body) ==
  IF body = <<>> THEN <<>>
  ELSE IF Head(body) = "\\" /\ Len(body) >= 2
  THEN <<body[2]>> \o Unescape(SubSeq(body, 3, Len(body)))
  ELSE <<Head(body)>> \o Unescape(Tail(body))

JsonIsDigits(t) ==
  t # <<>> /\ \A i \in 1..Len(t) : \E d \in 1..10 : t[i] = DecimalDigits[d]

RECURSIVE JsonNat(_)
JsonNat(t) ==
  IF t = <<>> THEN 0
  ELSE 10 * JsonNat(SubSeq(t, 1, Len(t) - 1))
       + ((CHOOSE d \in 1..10 : t[Len(t)] = DecimalDigits[d]) - 1)

\* What json.load makes of the spelling of a string, of null or of an int
JsonValue(lex) ==
  IF lex = JsonNull THEN None
  ELSE IF Head(lex) = "\"" THEN Unescape(SubSeq(lex, 2, Len(lex) - 1))
  ELSE IF Head(lex) = "-" THEN 0 - JsonNat(Tail(lex))
  ELSE JsonNat(lex)

\* The keys of a rule record in the order get_data writes them (lines 314-325)
RuleKeys ==
  << "name", "contains", "extensions", "size_min", "size_max", "date_after",
     "destination", "pattern", "prefix", "suffix" >>

\* The text "yyyy-MM-dd" of a day, held as one symbol, and the day of a text
DateText(day) == ToString(day)

DayOfText(text) == CHOOSE day \in 0..31 : ToString(day) = text

\* json.dump of the value of one key of a rule record: the two sizes are
\* ints, date_after is None or the text of a date, a name is one symbol, all
\* other values are strings
DumpField(key, v) ==
  IF key \in {"size_min", "size_max"} THEN JsonInt(v)
  ELSE IF key = "date_after"
  THEN (IF v = None THEN JsonNull ELSE JsonString(<<DateText(v[1])>>))
  ELSE IF key = "name" THEN JsonString(<<v>>)
  ELSE JsonString(v)

\* The value json.load gives back for one key of a rule record
LoadField(key, lex) ==
  IF key = "date_after"
  THEN (IF lex = JsonNull THEN None ELSE <<DayOfText(JsonValue(lex)[1])>>)
  ELSE IF key = "name" THEN JsonValue(lex)[1]
  ELSE JsonValue(lex)

\* json.dump of a rule record: its members in the order of the record
DumpRule(rule) ==
  LET keys == SelectSeq(RuleKeys, LAMBDA k : k \in DOMAIN rule)
  IN [i \in 1..Len(keys) |->
        [key |-> JsonString(<<keys[i]>>), value |-> DumpField(keys[i], rule[keys[i]])]]

\* json.load of the members of a rule record
LoadRule(members) ==
  LET KeyOf(i) == JsonValue(members[i].key)[1]
  IN [k \in { KeyOf(i) : i \in 1..Len(members) } |->
        LoadField(k, members[CHOOSE i \in 1..Len(members) : KeyOf(i) = k].value)]

\* json.dump(self.organizer_presets, f): organizer_presets is held as the
\* sequence of its items, in the order dict keeps them
json_dump_presets(presets) ==
  [ kind |-> "json",
    members |-> [i \in 1..Len(presets) |->
                   [key |-> JsonString(presets[i].name),
                    value |-> [j \in 1..Len(presets[i].rules) |->
                                 DumpRule(presets[i].rules[j])]]] ]

\* json.load(f) of a JSON document of PRESETS_FILE
json_load_presets(doc) ==
  [i \in 1..Len(doc.members) |->
     [name |-> JsonValue(doc.members[i].key),
      rules |-> [j \in 1..Len(doc.members[i].value) |->
                   LoadRule(doc.members[i].value[j])]]]

\* -------------------------------------------------------------- profiles
\* name in self.organizer_presets
HasPreset(presets, name) == \E i \in 1..Len(presets) : presets[i].name = name

\* self.organizer_presets[name]
PresetOf(presets, name) ==
  presets[CHOOSE i \in 1..Len(presets) : presets[i].name = name].rules

\* SetPreset dropping every other profile
SetPreset_OnlyThis(presets, name, rules) == << [name |-> name, rules |-> rules] >>

\* self.organizer_presets[name] = rules: a known key keeps its place
SetPreset(presets, name, rules) ==
  IF HasPreset(presets, name)
  THEN [i \in 1..Len(presets) |->
          IF presets[i].name = name THEN [name |-> name, rules |-> rules] ELSE presets[i]]
  ELSE Append(presets, [name |-> name, rules |-> rules])

\* del self.organizer_presets[name]
DelPreset(presets, name) == SelectSeq(presets, LAMBDA e : e.name # name)

\* load_presets, lines 1042-1047, on self.organizer_presets = current
load_presets(doc, current) ==
  IF doc.kind = "absent" THEN current
  ELSE IF doc.kind = "garbage" THEN <<>>
  ELSE json_load_presets(doc)

\* Profile names typed in the input dialog; the empty name is refused
PresetNames == { <<>>, <<"p">>, <<"q", "\"">> }

\* Rule records as the rule dialog returns them (get_data, lines 313-325)
DialogRules ==
  { RuleData("N", <<"a", "\\", "\"">>, <<"j">>, 10, 0, <<10>>, DestOut,
             <<"{Year}", "/", "{Ext}">>, <<"p", "_">>, <<>>),
    RuleData("M", <<>>, <<>>, 0, 123, None, <<>>, <<>>, <<>>, <<"\\">>) }

\* Documents PRESETS_FILE can hold when the program starts: none, text that
\* is not JSON, or the profiles an earlier session saved
StoredPresets ==
  { Absent, Garbage,
    json_dump_presets(<< [name |-> <<"p">>, rules |-> << ManualRule(DestOut) >>] >>) }

\* A rule dialog is accepted (add_rule_from_filters, lines 1290-1292):
\* insert_rule_row appends get_data() to the table
insert_rule_row(data) ==
  /\ Len(rule_table) < MaxRules
  /\ rule_table' = Append(rule_table, data)
  /\ UNCHANGED << call, settings_file, presets_file, organizer_presets, envVars, written,
                  sw, aw, appVars, queue >>

\* remove_rule, lines 1318-1321, with one row selected
remove_rule(row) ==
  /\ row \in 1..Len(rule_table)
  /\ rule_table' = [i \in 1..(Len(rule_table) - 1) |->
                      IF i < row THEN rule_table[i] ELSE rule_table[i + 1]]
  /\ UNCHANGED << call, settings_file, presets_file, organizer_presets, envVars, written,
                  sw, aw, appVars, queue >>

\* save_current_preset, lines 1323-1332, with the dialog accepted (ok) or not
save_current_preset(name, ok) ==
  /\ IF ok /\ Truthy(name)
     THEN /\ organizer_presets' = SetPreset(organizer_presets, name, rule_table)
          /\ presets_file' = json_dump_presets(organizer_presets')
     ELSE UNCHANGED << organizer_presets, presets_file >>
  /\ UNCHANGED << call, settings_file, rule_table, envVars, written, sw, aw, appVars,
                  queue >>

\* load_selected_preset, lines 1334-1338
load_selected_preset(name) ==
  /\ rule_table' = IF HasPreset(organizer_presets, name)
                   THEN PresetOf(organizer_presets, name)
                   ELSE rule_table
  /\ UNCHANGED << call, settings_file, presets_file, organizer_presets, envVars, written,
                  sw, aw, appVars, queue >>

\* delete_preset, lines 1340-1345, with `name` the current text of the combo
delete_preset(name) ==
  /\ IF HasPreset(organizer_presets, name)
     THEN /\ organizer_presets' = DelPreset(organizer_presets, name)
          /\ presets_file' = json_dump_presets(organizer_presets')
     ELSE UNCHANGED << organizer_presets, presets_file >>
  /\ UNCHANGED << call, settings_file, rule_table, envVars, written, sw, aw, appVars,
                  queue >>

\* The program is closed and started again: __init__ (lines 541-543) empties
\* organizer_presets and calls load_presets; the rule table starts empty
RestartProfiles ==
  /\ organizer_presets' = load_presets(presets_file, <<>>)
  /\ rule_table' = <<>>
  /\ UNCHANGED << call, settings_file, presets_file, envVars, written, sw, aw, appVars,
                  queue >>

\* The program has started on one of the stored documents
InitProfiles ==
  /\ rootKind = "dir"
  /\ present = Paths
  /\ unwritable = {}
  /\ written = <<>>
  /\ sw = [w \in SWIds |-> NoWorker]
  /\ aw = [w \in AWIds |-> NoWorker]
  /\ AppIdle
  /\ call = NoCall
  /\ settings_file = Absent
  /\ presets_file \in StoredPresets
  /\ organizer_presets = load_presets(presets_file, <<>>)
  /\ rule_table = <<>>

NextProfiles ==
  \/ \E data \in DialogRules : insert_rule_row(data)
  \/ \E row \in 1..MaxRules : remove_rule(row)
  \/ \E name \in PresetNames, ok \in BOOLEAN : save_current_preset(name, ok)
  \/ \E name \in PresetNames : load_selected_preset(name)
  \/ \E name \in PresetNames : delete_preset(name)
  \/ RestartProfiles

SpecProfiles == InitProfiles /\ [][NextProfiles]_vars

\* -------------------------------------------------------------- settings
\* The value of "batch_size" in a settings document as load_settings stores it
BatchSizeValue(lex) ==
  IF lex = JsonNull \/ Head(lex) = "\"" THEN NotAnInteger ELSE JsonValue(lex)

\* A settings document that is a JSON array
JsonArray == [kind |-> "array"]

\* A settings document that is a JSON object with these members; the value
\* of "theme" is kept as spelled
SettingsObject(members) == [kind |-> "json", members |-> members]

BatchSizeMember(lex) == [key |-> JsonString(<<"batch_size">>), value |-> lex]

ThemeMember == [key |-> JsonString(<<"theme">>), value |-> <<"{", "}">>]

\* json.dump(data, f) of save_global_settings, lines 1065-1067
json_dump_settings(size) ==
  SettingsObject(<< BatchSizeMember(JsonInt(size)), ThemeMember >>)

\* load_settings, lines 1053-1061, on self.batch_size = current: a missing
\* file leaves it, so does text that is not JSON (json.load raises) and JSON
\* that is no object (data.get raises); an object gives the value of
\* "batch_size", whatever it is, or 100 without that key
load_settings(doc, current) ==
  IF doc.kind # "json" THEN current
  ELSE LET KeyOf(i) == JsonValue(doc.members[i].key)[1]
           at == { i \in 1..Len(doc.members) : KeyOf(i) = "batch_size" }
       IN IF at = {} THEN 100
          ELSE BatchSizeValue(doc.members[CHOOSE i \in at : TRUE].value)

\* Documents SETTINGS_FILE can hold
StoredSettings ==
  { Absent, Garbage, JsonArray, SettingsObject(<< ThemeMember >>) }
  \cup { json_dump_settings(size) : size \in {1, 2, DefaultBatchSize} }
  \cup { SettingsObject(<< BatchSizeMember(lex) >>) :
           lex \in { JsonInt(0), JsonInt(0 - 1), JsonString(<<"x">>), JsonNull } }

\* save_global_settings, lines 1063-1068; the spin box takes 1 to 5000
save_global_settings(value) ==
  /\ batch_size' = value
  /\ settings_file' = json_dump_settings(value)
  /\ UNCHANGED << call, presets_file, organizer_presets, rule_table, envVars, written,
                  sw, aw, search_thread, org_search_thread, action_thread,
                  found_files, organizer_files, queue >>

\* The program is closed, with no worker running, and started again:
\* __init__ sets batch_size to 100 (line 534) and calls load_settings
RestartSettings ==
  /\ \A w \in SWIds : sw[w].st # "running"
  /\ batch_size' = load_settings(settings_file, DefaultBatchSize)
  /\ sw' = [w \in SWIds |-> NoWorker]
  /\ search_thread' = NoThread
  /\ found_files' = <<>>
  /\ queue' = <<>>
  /\ UNCHANGED << call, cfgVars, envVars, written, aw, org_search_thread, action_thread,
                  organizer_files >>

\* SETTINGS_FILE is written, replaced or removed from outside the program
SettingsFileReplaced(doc) ==
  /\ settings_file' = doc
  /\ UNCHANGED << call, presets_file, organizer_presets, rule_table, envVars, written,
                  sw, aw, appVars, queue >>

\* The program has started for the first time: there is no settings document
InitSettings ==
  /\ rootKind = "dir"
  /\ present = Paths
  /\ unwritable = {}
  /\ written = <<>>
  /\ sw = [w \in SWIds |-> NoWorker]
  /\ aw = [w \in AWIds |-> NoWorker]
  /\ settings_file = Absent
  /\ batch_size = load_settings(settings_file, DefaultBatchSize)
  /\ search_thread = NoThread /\ org_search_thread = NoThread
  /\ action_thread = NoThread
  /\ found_files = <<>> /\ organizer_files = <<>>
  /\ queue = <<>>
  /\ call = NoCall
  /\ presets_file = Absent /\ organizer_presets = <<>> /\ rule_table = <<>>

NextSettings ==
  \/ \E value \in 1..MaxBatch : save_global_settings(value)
  \/ \E doc \in StoredSettings : SettingsFileReplaced(doc)
  \/ RestartSettings
  \/ \E ui \in UiChoices : start_search(ui)
  \/ \E w \in SWIds : SearchStep(w)

SpecSettings == InitSettings /\ [][NextSettings]_vars

\* ------------------------------------------------------- runs to the end
\* Rule records with keys missing, as a profile edited by hand can hold them
PartialRules == { [name |-> "NoDest"], [destination |-> <<>>] }

\* A SearchWorker started on any root and any set of vanished files, with
\* the batch size the program holds: an int or a value that is no number
InitSearchRun ==
  /\ rootKind \in {"dir", "notdir", "unreadable"}
  /\ present \in SUBSET Paths
  /\ unwritable = {}
  /\ written = <<>>
  /\ \E crit \in { c \in Criteria : c.recursive /\ c.keywords = <<>> /\ c.size_filter = None },
        bs \in (1..MaxBatch) \cup {NotAnInteger} :
       sw = [w \in SWIds |-> IF w = 1 THEN NewSearchWorker(crit, bs, "none") ELSE NoWorker]
  /\ aw = [w \in AWIds |-> NoWorker]
  /\ AppIdle
  /\ call = NoCall
  /\ ConfigIdle

\* An ActionWorker started on files some of which have vanished, with one
\* rule that is partial or names no destination: every file is skipped or
\* raises
InitActionRun ==
  /\ rootKind = "dir"
  /\ present \in SUBSET Paths
  /\ unwritable = {}
  /\ written = <<>>
  /\ sw = [w \in SWIds |-> NoWorker]
  /\ \E n \in 1..MaxFiles, mode \in {"copy", "move"},
        rule \in { r \in RuleCatalog : r.name = "Big" } \cup PartialRules :
       aw = [w \in AWIds |->
               IF w = 1
               THEN NewActionWorker([k \in 1..n |-> k], <<rule>>, mode, "none", FALSE)
               ELSE NoWorker]
  /\ AppIdle
  /\ call = NoCall
  /\ ConfigIdle

InitRuns == InitSearchRun \/ InitActionRun

\* No stop is requested
NextRuns ==
  \/ \E w \in SWIds : SearchStep(w)
  \/ \E w \in AWIds : ActionStep(w)

\* A started thread is scheduled again and again until run returns
SpecRuns ==
  /\ InitRuns /\ [][NextRuns]_vars
  /\ \A w \in SWIds : WF_vars(SearchStep(w))
  /\ \A w \in AWIds : WF_vars(ActionStep(w))

\* ------------------------------------------------------------- properties
SeqToSet(q) == { q[i] : i \in 1..Len(q) }

NoDup(q) == \A i, j \in 1..Len(q) : q[i] = q[j] => i = j

Last(q) == q[Len(q)]

RECURSIVE FlattenRecs(_)
FlattenRecs(evs) ==
  IF evs = <<>> THEN <<>> ELSE Head(evs).recs \o FlattenRecs(Tail(evs))

\* The records of all batches a SearchWorker has emitted, in emission order
Delivered(w) == FlattenRecs(SelectSeq(sw[w].out, LAMBDA e : e.sig = "batch_found"))

FinishedCount(out) == Len(SelectSeq(out, LAMBDA e : e.sig = "finished"))

VisitedFiles(s) ==
  LET it == MakeIterator(s.recursive, rootKind)
  IN UNION { SeqToSet(it[d]) : d \in 1..Len(it) }

\* p passes every enabled predicate; a size or date predicate can only be
\* passed by a file that can be stat'ed
SatisfiesEnabled(s, p) ==
  /\ ExtensionPasses(s.extensions, NameOf(p))
  /\ KeywordPasses(s.keywords, NameOf(p))
  /\ Truthy(s.size_filter) => (p \in present /\ SizePasses(s.size_filter, SizeOf(p)))
  /\ Truthy(s.date_filter) => (p \in present /\ DatePasses(s.date_filter, MTimeOf(p)))

\* p can be stat'ed and passes every enabled predicate
StatableMatch(s, p) ==
  /\ p \in present
  /\ ExtensionPasses(s.extensions, NameOf(p))
  /\ KeywordPasses(s.keywords, NameOf(p))
  /\ SizePasses(s.size_filter, SizeOf(p))
  /\ DatePasses(s.date_filter, MTimeOf(p))

Matching(s) == { p \in VisitedFiles(s) : StatableMatch(s, p) }

\* C1 as stated: an uncancelled SearchWorker run delivers, over all its
\* batches, exactly the visited files that satisfy every enabled predicate,
\* each exactly once.
C1_DeliversEveryMatch ==
  \A w \in SWIds :
    (sw[w].st = "done" /\ sw[w].running) =>
      /\ NoDup(Delivered(w))
      /\ SeqToSet(Delivered(w)) = { p \in VisitedFiles(sw[w]) : SatisfiesEnabled(sw[w], p) }

\* C1 as amended: an uncancelled SearchWorker run delivers, over all its
\* batches, exactly the visited files on which os.stat succeeds and that
\* satisfy every enabled predicate, each exactly once.
C1_DeliversEveryStatableMatch ==
  \A w \in SWIds :
    (sw[w].st = "done" /\ sw[w].running) =>
      /\ NoDup(Delivered(w))
      /\ SeqToSet(Delivered(w)) = Matching(sw[w])

\* An uncancelled run has ended that delivered a file, filtered one out and
\* met one whose stat failed although its name passes
C1_Witness ==
  \E w \in SWIds :
    /\ sw[w].st = "done" /\ sw[w].running
    /\ Len(Delivered(w)) >= 1
    /\ \E p \in VisitedFiles(sw[w]) : p \in present /\ ~StatableMatch(sw[w], p)
    /\ \E p \in VisitedFiles(sw[w]) : p \notin present /\ SatisfiesEnabled(sw[w], p)

\* C2: the rule applied to a file is the first rule in list order that the
\* file matches; a later matching rule is never the one applied, and a file
\* that can be stat'ed and matches some rule has a rule applied.
C2_FirstMatchWins ==
  \A w \in AWIds :
    aw[w].st # "none" =>
      \A k \in 1..Len(aw[w].applied) :
        LET p == aw[w].files[k]
            r == aw[w].applied[k]
            rules == aw[w].rules
        IN /\ r # 0 => /\ matches_rule(p, rules[r])
                       /\ \A j \in 1..(r - 1) : ~matches_rule(p, rules[j])
           /\ (r = 0 /\ ~aw[w].raised[k]) =>
                \A j \in 1..Len(rules) : ~matches_rule(p, rules[j])

\* A file matched by two different rules of the list has been handled and
\* the earlier rule was applied
C2_Witness ==
  \E w \in AWIds :
    /\ aw[w].st # "none" /\ Len(aw[w].rules) >= 2 /\ Len(aw[w].applied) >= 1
    /\ aw[w].rules[1] # aw[w].rules[2]
    /\ aw[w].applied[1] = 1
    /\ matches_rule(aw[w].files[1], aw[w].rules[2])
    /\ aw[w].results.success = 1

\* The file existed when it was handled: it still does, or it was moved away
Existed(p) == p \in present \/ \E k \in 1..Len(written) : written[k].src = p

RaisedFiles(a) == { k \in 1..Len(a.raised) : a.raised[k] }

HasErrorLine(a, p) ==
  \E n \in 1..Len(a.out) :
    a.out[n].sig = "log_msg" /\ a.out[n].tag = "ERROR" /\ a.out[n].file = p

\* C3: a vanished source file, and a destination that cannot be created or
\* written, raise for that file only: the file is counted as Error (once per
\* failing file) with an ERROR line, and unless the cleared flag was read
\* every file of the list is handled before the run ends.
C3_FailureDoesNotAbort ==
  \A w \in AWIds :
    aw[w].st # "none" =>
      LET a == aw[w] IN
      /\ Len(a.raised) = a.i
      /\ \A k \in 1..a.i :
           /\ ~Existed(a.files[k]) => a.raised[k]
           /\ ( /\ a.applied[k] # 0 /\ Existed(a.files[k])
                /\ Truthy(a.rules[a.applied[k]].destination)
                /\ CleanDestBase(a.rules[a.applied[k]].destination) \in unwritable )
              => a.raised[k]
           /\ a.raised[k] => HasErrorLine(a, a.files[k])
      /\ a.results.errors = Cardinality(RaisedFiles(a))
      /\ (a.st = "done" /\ ~a.seen) => a.i = Len(a.files)

\* A run has ended in which the first file failed and a later one succeeded
C3_Witness ==
  \E w \in AWIds :
    /\ aw[w].st = "done" /\ ~aw[w].seen
    /\ Len(aw[w].files) >= 2
    /\ aw[w].raised[1]
    /\ aw[w].results.success >= 1

\* C4: in the terminal summary success + skipped + errors equals the number
\* of files handled, for every file list and every rule list, the empty rule
\* list included.
C4_OneOutcomePerFile ==
  \A w \in AWIds :
    aw[w].st = "done" =>
      aw[w].results.success + aw[w].results.skipped + aw[w].results.errors = aw[w].i

InFlight(pc) == IF pc = "body" THEN 1 ELSE 0

\* C5: once stop() has been called on a SearchWorker, only the file whose
\* step is in progress can still be added; after the loop has read the flag
\* no record is added and no file step starts; the run ends with the pending
\* batch emitted and a terminal summary whose count is the number of records
\* delivered, which is below the number of matching files whenever a matching
\* file was not reached.
C5_SearchStops ==
  \A w \in SWIds :
    (sw[w].st # "none" /\ ~sw[w].running) =>
      LET s == sw[w] IN
      /\ s.count <= s.stopCount + InFlight(s.stopPc)
      /\ s.seen => (s.count = s.seenCount /\ s.pc \notin {"file", "body"})
      /\ s.st = "done" =>
           /\ Last(s.out).sig = "finished"
           /\ Last(s.out).count = s.count
           /\ Len(Delivered(w)) = s.count
           /\ SeqToSet(Delivered(w)) \subseteq Matching(s)
           /\ (\E p \in Matching(s) : p \notin SeqToSet(Delivered(w)))
                => Last(s.out).count < Cardinality(Matching(s))

\* A cancelled run has ended: the flag was read with one record pending in a
\* batch of size two, and a matching file was never reached
C5_Witness ==
  \E w \in SWIds :
    /\ sw[w].st = "done" /\ sw[w].seen
    /\ sw[w].batch_size = 2 /\ sw[w].count = 1
    /\ Len(Delivered(w)) = 1
    /\ Cardinality(Matching(sw[w])) >= 2

\* C6: once stop() has been called on an ActionWorker, only the file in
\* flight is still completed: no later file is matched, transferred or
\* counted, and the run ends with the terminal summary carrying the counts of
\* the work done; the cancellation itself is not counted as an error.
C6_ActionStops ==
  \A w \in AWIds :
    (aw[w].st # "none" /\ ~aw[w].running) =>
      LET a == aw[w] IN
      /\ a.i <= a.stopI + InFlight(a.stopPc)
      /\ Len(a.applied) = a.i
      /\ \A k \in 1..Len(written) : \E n \in 1..a.i : a.files[n] = written[k].src
      /\ a.seen => a.pc \in {"fin", "end"}
      /\ a.results.errors = Cardinality(RaisedFiles(a))
      /\ a.st = "done" =>
           /\ Last(a.out) = ActionFinishedEv(a.results)
           /\ a.results.success + a.results.skipped + a.results.errors >= a.i

\* A cancelled run has ended after a successful transfer, with files left
C6_Witness ==
  \E w \in AWIds :
    /\ aw[w].st = "done" /\ aw[w].seen
    /\ aw[w].i >= 1 /\ aw[w].i < Len(aw[w].files)
    /\ aw[w].results.success >= 1

OneFinishedLast(st, out) ==
  /\ FinishedCount(out) <= 1
  /\ FinishedCount(out) = 1 => (Last(out).sig = "finished" /\ st = "done")
  /\ st = "done" => FinishedCount(out) = 1

\* C7: every SearchWorker run and every ActionWorker run emits exactly one
\* finished signal, and nothing after it.
C7_OneTerminalSummary ==
  /\ \A w \in SWIds : sw[w].st # "none" => OneFinishedLast(sw[w].st, sw[w].out)
  /\ \A w \in AWIds : aw[w].st # "none" => OneFinishedLast(aw[w].st, aw[w].out)

\* A cancelled ActionWorker run has ended after handling a file: log and
\* progress events precede its finished signal
C7_Witness ==
  \E w \in AWIds :
    /\ aw[w].st = "done" /\ aw[w].seen /\ aw[w].i >= 1
    /\ Len(aw[w].out) >= 4
    /\ Last(aw[w].out).sig = "finished"

\* C8: at most one SearchWorker per result view is running at any time: a
\* search started while the previous search of the same view is still
\* running does not run alongside it.
C8_OneSearchPerView ==
  \A v, w \in SWIds :
    (sw[v].st = "running" /\ sw[w].st = "running" /\ sw[v].slot = sw[w].slot) => v = w

\* The GUI thread appends the batch of a worker that is not the current
\* search of the view to that view's result list
StaleBatchDelivered ==
  /\ queue # <<>> /\ queue' = Tail(queue)
  /\ Head(queue).kind = "sw" /\ Head(queue).ev.sig = "batch_found"
  /\ \/ /\ Head(queue).slot = "views" /\ Head(queue).src # search_thread
        /\ found_files' = found_files \o Head(queue).ev.recs
     \/ /\ Head(queue).slot = "org" /\ Head(queue).src # org_search_thread
        /\ organizer_files' = organizer_files \o Head(queue).ev.recs

\* C9: once a search has been restarted, no batch emitted by a superseded
\* worker is delivered into found_files (resp. organizer_files): every batch
\* appended to a result list comes from the most recently started worker of
\* that view.
C9_NoStaleBatch == [][~StaleBatchDelivered]_vars

\* C10: at most one ActionWorker is running at any time.
C10_OneActionWorker ==
  Cardinality({ w \in AWIds : aw[w].st = "running" }) <= 1

RECURSIVE Concat(_)
Concat(seqs) == IF seqs = <<>> THEN <<>> ELSE Head(seqs) \o Concat(Tail(seqs))

IsPrefix(a, b) == Len(a) <= Len(b) /\ SubSeq(b, 1, Len(a)) = a

\* The matches of a scan in the order the walk meets them; batch_size plays
\* no part in it
Discovered(s) ==
  SelectSeq(Concat(MakeIterator(s.recursive, rootKind)),
            LAMBDA p : SearchKeeps(s, p, p \in present))

BatchesOf(out) == SelectSeq(out, LAMBDA e : e.sig = "batch_found")

\* C11: for a fixed tree and criteria the concatenation of the emitted
\* batches, in emission order, is the sequence of matches in discovery order
\* whatever batch_size is: during the run the batches followed by the pending
\* batch are a prefix of it, and an uncancelled run has emitted all of it.
C11_BatchSizeInvariance ==
  \A w \in SWIds :
    sw[w].st # "none" =>
      /\ IsPrefix(Delivered(w), Discovered(sw[w]))
      /\ sw[w].pc \notin {"fin", "end"} =>
           IsPrefix(Delivered(w) \o sw[w].current_batch, Discovered(sw[w]))
      /\ (sw[w].st = "done" /\ sw[w].running) => Delivered(w) = Discovered(sw[w])

\* An uncancelled run with batch_size 2 has ended after emitting a full batch
\* and a remainder of one record
C11_Witness ==
  \E w \in SWIds :
    /\ sw[w].st = "done" /\ sw[w].running /\ sw[w].batch_size = 2
    /\ Len(BatchesOf(sw[w].out)) = 2
    /\ Len(Delivered(w)) = 3

\* C12: every emitted batch is non-empty and holds at most batch_size
\* records, every batch but the last of a run holds exactly batch_size, the
\* pending batch always holds fewer than batch_size records, and a run that
\* has ended has emitted every record it counted.
C12_BatchBounds ==
  \A w \in SWIds :
    sw[w].st # "none" =>
      LET s == sw[w]
          bs == BatchesOf(s.out)
      IN /\ \A k \in 1..Len(bs) : Len(bs[k].recs) >= 1 /\ Len(bs[k].recs) <= s.batch_size
         /\ \A k \in 1..(Len(bs) - 1) : Len(bs[k].recs) = s.batch_size
         /\ Len(s.current_batch) < s.batch_size
         /\ s.pc \notin {"fin", "end"} => Len(Delivered(w)) + Len(s.current_batch) = s.count
         /\ s.pc \in {"fin", "end"} => Len(Delivered(w)) = s.count
         /\ s.st = "done" => Last(s.out).sig = "finished"

\* Between two file steps, after a full batch of two has been emitted, one
\* record is pending
C12_Witness ==
  \E w \in SWIds :
    /\ sw[w].st = "running" /\ sw[w].pc = "file" /\ sw[w].batch_size = 2
    /\ Len(BatchesOf(sw[w].out)) = 1
    /\ Len(sw[w].current_batch) = 1

HasLine(a, tag, p) ==
  \E n \in 1..Len(a.out) :
    a.out[n].sig = "log_msg" /\ a.out[n].tag = tag /\ a.out[n].file = p

\* The k-th file of the run exists and no rule of the non-empty list matches it
NoRuleMatches(a, k) ==
  /\ Truthy(a.rules)
  /\ Existed(a.files[k])
  /\ \A j \in 1..Len(a.rules) : ~matches_rule(a.files[k], a.rules[j])

\* C13: with a non-empty rule list, a file that no rule matches is counted
\* as Skipped and not as Error, a SKIP line is logged for it, and nothing is
\* transferred for it: it stays where it was.
C13_UnmatchedIsSkipped ==
  \A w \in AWIds :
    aw[w].st # "none" =>
      LET a == aw[w]
          unmatched == { k \in 1..a.i : NoRuleMatches(a, k) }
      IN /\ \A k \in unmatched :
              /\ ~a.raised[k] /\ a.applied[k] = 0
              /\ HasLine(a, "SKIP", a.files[k])
              /\ ~HasErrorLine(a, a.files[k])
              /\ a.files[k] \in present
              /\ \A n \in 1..Len(written) : written[n].src # a.files[k]
         /\ a.results.skipped >= Cardinality(unmatched)
         /\ a.results.errors = Cardinality(RaisedFiles(a))

\* A run has ended in which one file matched no rule and another was
\* transferred
C13_Witness ==
  \E w \in AWIds :
    /\ aw[w].st = "done"
    /\ \E k \in 1..aw[w].i : NoRuleMatches(aw[w], k)
    /\ aw[w].results.skipped = 1 /\ aw[w].results.success >= 1

\* The destination of the rule is unset, empty, or empty once the surrounding
\* whitespace and quotes are trimmed
BlankDestination(rule) ==
  \/ ~Truthy(RuleGetStr(rule, "destination"))
  \/ StripChars(Strip(rule["destination"]), {"\"", "'"}) = <<>>

\* C14: a file whose matched rule has an empty or unset destination, also one
\* that is empty once whitespace and quotes are trimmed, is counted as
\* Skipped and not as Error, and nothing is transferred for it.
C14_BlankDestinationIsSkipped ==
  \A w \in AWIds :
    aw[w].st # "none" =>
      LET a == aw[w]
          blank == { k \in 1..a.i : a.applied[k] # 0 /\ BlankDestination(a.rules[a.applied[k]]) }
      IN /\ \A k \in blank :
              /\ ~a.raised[k]
              /\ HasLine(a, "SKIP", 0)
              /\ \A n \in 1..Len(written) : written[n].src # a.files[k]
         /\ a.results.skipped >= Cardinality(blank)

\* Worker w completes the handling of a file in this step
HandlesFile(w) == aw[w].st # "none" /\ aw'[w].i = aw[w].i + 1

\* What the handling of one file by worker w does to the file system
TransferEffect(w) ==
  LET a == aw[w]
      p == a.files[a.i + 1]
  IN IF aw'[w].results.success = a.results.success + 1
     THEN /\ p \in present
          /\ Len(written') = Len(written) + 1
          /\ SubSeq(written', 1, Len(written)) = written
          /\ Last(written').src = p
          /\ a.default_action = "move" => present' = present \ {p}
          /\ a.default_action # "move" => present' = present
     ELSE present' = present /\ written' = written

ProgressOf(out) == SelectSeq(out, LAMBDA e : e.sig = "progress")

\* C16: within one ActionWorker run the emitted progress percentages are
\* non-decreasing.
C16_ProgressMonotone ==
  \A w \in AWIds :
    aw[w].st # "none" =>
      LET pv == ProgressOf(aw[w].out)
      IN \A m, n \in 1..Len(pv) : m < n => pv[m].value <= pv[n].value

\* The progress events emitted from inside the loop (line 521 emits "Done.")
FileProgressOf(out) == SelectSeq(out, LAMBDA e : e.sig = "progress" /\ e.label # "Done.")

\* C17: after each file handled, whatever its outcome, one progress event is
\* emitted whose value is int((k / total) * 100), k being the number of files
\* completed so far.
C17_ProgressPerFile ==
  \A w \in AWIds :
    (aw[w].st # "none" /\ aw[w].pc \in {"loop", "fin", "end"}) =>
      LET pv == FileProgressOf(aw[w].out)
      IN /\ Len(pv) = aw[w].i
         /\ \A k \in 1..Len(pv) : pv[k].value = Percent(k, aw[w].total)

\* C18: no progress event with value 100 is emitted while files of the input
\* list have not been handled, in cancelled runs too.
C18_HundredOnlyAtEnd ==
  \A w \in AWIds :
    aw[w].st # "none" =>
      ( (\E n \in 1..Len(aw[w].out) :
           aw[w].out[n].sig = "progress" /\ aw[w].out[n].value = 100)
        => aw[w].i = Len(aw[w].files) )

\* C18 as amended: a progress event with value 100 is either the closing
\* event, emitted right before the terminal summary (in cancelled runs too),
\* or emitted from the loop once `total` files have been handled.
C18_HundredAtCloseOrTotal ==
  \A w \in AWIds :
    aw[w].st # "none" =>
      LET a == aw[w] IN
      \A n \in 1..Len(a.out) :
        (a.out[n].sig = "progress" /\ a.out[n].value = 100) =>
          IF a.out[n].label = "Done."
          THEN a.st = "done" /\ n = Len(a.out) - 1 /\ Last(a.out).sig = "finished"
          ELSE a.i >= a.total /\ Len(FileProgressOf(SubSeq(a.out, 1, n))) <= a.total

\* A cancelled run has ended with files left unhandled, after the closing
\* progress event of value 100
C18_Witness ==
  \E w \in AWIds :
    /\ aw[w].st = "done" /\ aw[w].seen
    /\ aw[w].i >= 1 /\ aw[w].i < Len(aw[w].files)
    /\ \E n \in 1..Len(aw[w].out) :
         aw[w].out[n].sig = "progress" /\ aw[w].out[n].value = 100

\* The position in the file list of the file that the n-th transfer took
WrittenIndex(a, n) == CHOOSE k \in 1..a.i : a.files[k] = written[n].src

\* The rule under which the n-th transfer was made
WrittenRule(a, n) == a.rules[a.applied[WrittenIndex(a, n)]]

\* Every rule a run can hold
RuleSet == RuleCatalog \cup { ManualRule(DestOut) }

\* normpath(destination joined with the decorated relative path), then the
\* file's base name, for every rule and file
JoinedDest ==
  [r \in RuleSet |-> [f \in Paths |->
     NormPath(Join2(CleanDestBase(r.destination),
                    RelPath(r.pattern, RuleGetStr(r, "prefix"), RuleGetStr(r, "suffix"), f)))
       \o <<"/">> \o NameOf(f)]]

\* The substituted pattern without leading separators, cut at "/"
SegmentsOf(r, f) == Split(LStrip(Substitute(r.pattern, f), {"/", "\\"}), "/")

\* The segments in order, prefix and suffix on the last one only, put under
\* the destination with the file's base name
DecoratedDest ==
  [r \in RuleSet |-> [f \in Paths |->
     LET segs == SegmentsOf(r, f)
         last == RuleGetStr(r, "prefix") \o segs[Len(segs)] \o RuleGetStr(r, "suffix")
         expected == JoinWith(Append(SubSeq(segs, 1, Len(segs) - 1), last), "/")
     IN NormPath(CleanDestBase(r.destination) \o <<"/">> \o expected)
          \o <<"/">> \o NameOf(f)]]

\* Scenario B: pattern {Year}/{Month}, base /out, file modified 2023-11-20
ScenarioB ==
  FinalDir(CleanDestBase(<<"/", "o", "u", "t">>),
           RelPathOf(SubstituteAt(<<"{Year}", "/", "{Month}">>, <<"a", ".", "j">>,
                                  1700438400, 0), <<>>, <<>>))
    = <<"/", "o", "u", "t", "/", "2023", "/", "11">>

\* 2024-01-07, a Sunday of ISO week 1: day, week and month are zero-padded
PaddedTokens ==
  SubstituteAt(<<"{Day}", "-", "{Week}", "-", "{Month}", "-", "{Year}">>, <<"a", ".", "j">>,
               1704585600, 0)
    = <<"07", "-", "01", "-", "01", "-", "2024">>

\* C19: the destination file path is normpath(destination joined with the
\* substituted pattern) joined with the file's base name, {Year} being the
\* 4-digit year and {Month}, {Day}, {Week} 2-digit zero-padded; pattern
\* {Year}/{Month} with base /out and a file modified 2023-11-20 gives /out/2023/11;
\* the manual rule gives destination/<file name> and matches every existing
\* file.
C19_DestinationPath ==
  /\ ScenarioB
  /\ PaddedTokens
  /\ \A w \in AWIds :
       aw[w].st # "none" =>
         LET a == aw[w] IN
         /\ \A n \in 1..Len(written) :
              LET f == written[n].src
                  r == WrittenRule(a, n)
              IN /\ a.applied[WrittenIndex(a, n)] # 0
                 /\ written[n].path = JoinedDest[r][f]
                 /\ r.name = "J" =>
                      written[n].path = <<"/", "o", "/", "1970", "/", "01", "/">> \o NameOf(f)
                 /\ r.name = "Manual" => written[n].path = DestOut \o <<"/">> \o NameOf(f)
         /\ a.rules = << ManualRule(DestOut) >> =>
              \A k \in 1..a.i :
                Existed(a.files[k]) =>
                  /\ a.applied[k] = 1 /\ ~a.raised[k]
                  /\ \E n \in 1..Len(written) : written[n].src = a.files[k]

\* A file has been transferred under the rule with pattern {Year}/{Month}
C19_Witness ==
  \E w \in AWIds :
    /\ aw[w].st # "none" /\ Len(written) >= 1
    /\ WrittenRule(aw[w], 1).name = "J"
    /\ aw[w].results.success >= 1

\* C20: after token substitution and stripping of leading separators, prefix
\* and suffix are put on the final segment only and the segments are rejoined
\* in order, for patterns of one, two and three segments.
C20_PrefixSuffixOnLastSegment ==
  \A w \in AWIds :
    aw[w].st # "none" =>
      \A n \in 1..Len(written) :
        LET f == written[n].src
            r == WrittenRule(aw[w], n)
            ext == LStrip(SplitExt(NameOf(f))[2], {"."})
        IN /\ written[n].path = DecoratedDest[r][f]
           /\ r.name = "All" =>
                written[n].path =
                  DestUnw \o <<"/">> \o (IF ext = <<>> THEN <<>> ELSE ext \o <<"/">>)
                    \o <<"p">> \o SplitExt(NameOf(f))[1] \o <<"s">> \o <<"/">> \o NameOf(f)

\* A file with an extension has been transferred under the rule with the
\* two-segment pattern {Ext}/{Name}, prefix p and suffix s
C20_Witness ==
  \E w \in AWIds :
    /\ aw[w].st # "none" /\ Len(written) >= 1
    /\ WrittenRule(aw[w], 1).name = "All"
    /\ written[1].path = <<"/", "u", "/", "J", "/", "p", "a", "B", "s", "/", "a", "B", ".", "J">>

\* The pieces of a comma-separated text, trimmed, blank pieces left out
NonBlankPieces(text) ==
  LET pieces == Split(text, ",")
  IN { Strip(pieces[i]) : i \in { j \in 1..Len(pieces) : Strip(pieces[j]) # <<>> } }

\* One of the comma-separated substrings occurs in the name, letter case
\* ignored; a text without any substring asks for nothing
NameContainsAny(text, name) ==
  NonBlankPieces(text) = {} \/
    \E k \in NonBlankPieces(text) : Contains(LowerStr(k), LowerStr(name))

\* A rule none of whose predicates is configured
UnsetRule ==
  [contains |-> None, extensions |-> None, size_min |-> 0, size_max |-> 0,
   date_after |-> None]

\* C21: matches_rule returns true iff every configured predicate of the rule
\* passes (name, extension, size, date), a predicate that is not configured
\* asking for nothing; the name predicate passes iff at least one of the
\* comma-separated substrings occurs in the file name, letter case ignored.
C21_MatchesIffAllPredicatesPass ==
  (call.op = "matches_rule" /\ call.done) =>
    /\ call.ret =
         ( /\ NameContainsAny(call.rule.contains, call.name)
           /\ ExtPredicate(call.rule, LowerStr(call.name))
           /\ SizePredicate(call.rule, call.st_size)
           /\ DatePredicate(call.rule, call.st_mtime) )
    /\ call.rule = UnsetRule => call.ret
    /\ matches_rule_at(call.name, call.st_size, call.st_mtime,
                       [UnsetRule EXCEPT !.contains = call.rule.contains])
         = NameContainsAny(call.rule.contains, call.name)

\* matches_rule has accepted aB.J under a rule with all four predicates
\* configured, the name one through the upper-case substring A
C21_Witness ==
  /\ call.op = "matches_rule" /\ call.done /\ call.ret
  /\ call.name = <<"a", "B", ".", "J">>
  /\ call.rule.contains = <<"z", ",", " ", "A">>
  /\ call.rule.extensions # None
  /\ call.rule.size_min = 1 /\ call.rule.size_max = 5
  /\ call.rule.date_after # None

\* The file's extension in lower case without its dot (<<>>: no extension)
FileExtension(name) == LStrip(SplitExt(LowerStr(name))[2], {"."})

\* The extensions a rule's list names: its non-blank entries in lower case,
\* the leading dot dropped
ListedExtensions(text) == { LStrip(LowerStr(e), {"."}) : e \in NonBlankPieces(text) }

\* C22: a rule with a configured extension list matches a file iff the file's
\* extension, letter case ignored, with or without the leading dot, is in the
\* list; a file without extension does not pass a rule that names extensions,
\* also when the list has blank entries.
C22_ExtensionInList ==
  ( /\ call.op = "matches_rule" /\ call.done
    /\ call.rule.extensions # None
    /\ call.rule = [UnsetRule EXCEPT !.extensions = call.rule.extensions] ) =>
      call.ret = ( /\ FileExtension(call.name) # <<>>
                   /\ FileExtension(call.name) \in ListedExtensions(call.rule.extensions) )

\* The rule of the call has no criterion but its size bounds
SizeOnlyRule(rule) ==
  rule = [UnsetRule EXCEPT !.size_min = rule.size_min, !.size_max = rule.size_max]

\* C23: with the size in MB being bytes / (1024 * 1024), a file fails the
\* rule iff size_min is set and size < min, or size_max is set and nonzero and
\* size > max; size_max = 0 puts no upper bound and a size equal to min or to
\* max passes. A 5 MB file does not match a rule with size_min = 10, and a
\* file below the minimum of the only rule is Skipped.
C23_SizePredicate ==
  /\ (call.op = "matches_rule" /\ call.done /\ SizeOnlyRule(call.rule)) =>
       LET lo == call.rule.size_min
           hi == call.rule.size_max
           bytes == call.st_size
       IN /\ call.ret = ~( (lo # 0 /\ bytes < lo * 1048576)
                            \/ (hi # 0 /\ bytes > hi * 1048576) )
          /\ (hi = 0 /\ bytes >= lo * 1048576) => call.ret
          /\ (bytes = lo * 1048576 /\ (hi = 0 \/ hi >= lo)) => call.ret
          /\ (bytes = hi * 1048576 /\ hi >= lo) => call.ret
          /\ (bytes = 5 * 1048576 /\ lo = 10) => ~call.ret
  /\ \A w \in AWIds :
       (aw[w].st = "done" /\ Len(aw[w].rules) = 1 /\ aw[w].rules[1].name = "Size") =>
         LET a == aw[w]
             f == a.files[1]
         IN IF SizeOf(f) < a.rules[1].size_min * 1048576
            THEN /\ a.results = [success |-> 0, skipped |-> 1, errors |-> 0]
                 /\ HasLine(a, "SKIP", f)
                 /\ written = <<>> /\ f \in present
            ELSE /\ a.results = [success |-> 1, skipped |-> 0, errors |-> 0]
                 /\ Len(written) = 1

\* matches_rule has refused a 5 MB file under a rule with size_min = 10
C23_Witness ==
  /\ call.op = "matches_rule" /\ call.done /\ ~call.ret
  /\ SizeOnlyRule(call.rule)
  /\ call.st_size = 5 * 1048576 /\ call.rule.size_min = 10 /\ call.rule.size_max = 0

\* The rule of the call has no criterion but its date
DateOnlyRule(rule) ==
  rule.date_after # None /\ rule = [UnsetRule EXCEPT !.date_after = rule.date_after]

\* The day a timestamp falls on, counted from 1970-01-01 as day 0
DayOfTimestamp(t) == CHOOSE d \in 0..(t \div 86400 + 1) : d * 86400 <= t /\ t < (d + 1) * 86400

\* C24: a rule with date_after = D matches only files modified strictly after
\* day D; a file modified on day D fails the rule, although the search-side
\* date filter set to the same D keeps it.
C24_RuleDateStrictlyAfter ==
  (call.op = "matches_rule" /\ call.done /\ DateOnlyRule(call.rule)) =>
    LET D == call.rule.date_after[1]
        day == DayOfTimestamp(call.st_mtime)
    IN /\ call.ret = (day > D)
       /\ day = D =>
            /\ ~call.ret
            /\ DatePasses(ParseDateFilter(TRUE, D), call.st_mtime)

\* matches_rule has refused a file modified at noon of day 10 under a rule
\* with date_after = day 10
C24_Witness ==
  /\ call.op = "matches_rule" /\ call.done /\ ~call.ret
  /\ DateOnlyRule(call.rule) /\ call.rule.date_after = <<10>>
  /\ call.st_mtime = 10 * 86400 + 43200

\* C25: the search date filter with date D keeps exactly the files whose
\* modification day is not earlier than D: a file modified on day D is kept
\* and a file modified on the day before D is excluded.
C25_SearchDateNotEarlier ==
  (call.op = "search_filter" /\ call.done /\ call.s_idx = 0) =>
    LET day == DayOfTimestamp(call.st_mtime) IN
    /\ call.d_enabled => call.ret = (day >= call.date)
    /\ ~call.d_enabled => call.ret
    /\ (call.d_enabled /\ day = call.date) => call.ret
    /\ (call.d_enabled /\ day = call.date - 1) => ~call.ret

\* The date filter set to day 10 has excluded a file modified in the last
\* second of day 9
C25_Witness ==
  /\ call.op = "search_filter" /\ call.done /\ ~call.ret
  /\ call.s_idx = 0 /\ call.d_enabled /\ call.date = 10
  /\ call.st_mtime = 9 * 86400 + 86399

\* C26: the search size filter keeps exactly the files with size > threshold
\* (greater than) or with size < threshold (less than), for every threshold
\* the caller can enter, 0 included; a size equal to the threshold is
\* excluded in both directions.
C26_SearchSizeStrict ==
  ( /\ call.op = "search_filter" /\ call.done /\ ~call.d_enabled
    /\ call.s_idx \in {1, 2} /\ IsDigits(call.size_text) ) =>
      LET threshold == IntOf(call.size_text) * 1048576 IN
      /\ call.s_idx = 1 => call.ret = (call.st_size > threshold)
      /\ call.s_idx = 2 => call.ret = (call.st_size < threshold)
      /\ call.st_size = threshold => ~call.ret

\* The sizes in bytes of a tier: from its lower bound up to, not including,
\* the lower bound of the next tier
InTier(tier, bytes) ==
  CASE tier = "Tiny" -> bytes < 1048576
    [] tier = "Small" -> 1048576 <= bytes /\ bytes < 10 * 1048576
    [] tier = "Medium" -> 10 * 1048576 <= bytes /\ bytes < 100 * 1048576
    [] tier = "Large" -> 100 * 1048576 <= bytes /\ bytes < 1024 * 1048576
    [] tier = "Huge" -> 1024 * 1048576 <= bytes

Tiers == {"Tiny", "Small", "Medium", "Large", "Huge"}

\* C27: get_size_tier gives Tiny below 1 MB, Small below 10 MB, Medium below
\* 100 MB, Large below 1024 MB and Huge otherwise, 1 MB being 1024 * 1024
\* bytes; a boundary size belongs to the higher tier and every size gets
\* exactly one tier.
C27_SizeTiers ==
  (call.op = "get_size_tier" /\ call.done) =>
    /\ call.ret \in Tiers
    /\ InTier(call.ret, call.bytes_size)
    /\ \A t \in Tiers : InTier(t, call.bytes_size) => t = call.ret
    /\ call.bytes_size = 1048576 => call.ret = "Small"
    /\ call.bytes_size = 1024 * 1048576 => call.ret = "Huge"

\* get_size_tier has put exactly 1024 MB in the tier Huge
C27_Witness ==
  /\ call.op = "get_size_tier" /\ call.done
  /\ call.bytes_size = 1024 * 1048576 /\ call.ret = "Huge"

\* root_dir is missing, not a directory, or a directory that cannot be listed
RootNotReadable == rootKind \in {"notdir", "unreadable"}

\* C28 as stated: if rootPath is not a readable directory, the search emits
\* no batch and exactly one terminal summary, with count 0 and elapsed 0.
C28_EmptySummaryElapsedZero ==
  \A w \in SWIds :
    (sw[w].st = "done" /\ RootNotReadable) =>
      sw[w].out = << SearchFinishedEv(0, "zero") >>

\* C28 amended: if rootPath is not a readable directory, the search emits no
\* batch and exactly one terminal summary with count 0; the elapsed time of
\* the summary is 0 when rootPath is missing or not a directory, and the
\* measured time of the run when it is a directory that cannot be listed.
C28_EmptySummary ==
  \A w \in SWIds :
    (sw[w].st # "none" /\ RootNotReadable) =>
      /\ BatchesOf(sw[w].out) = <<>>
      /\ sw[w].count = 0
      /\ sw[w].st = "running" => sw[w].out = <<>>
      /\ sw[w].st = "done" =>
           sw[w].out =
             << SearchFinishedEv(0, IF rootKind = "notdir" THEN "zero" ELSE "measured") >>

\* A search of a path that is not a directory has ended with its summary
C28_Witness ==
  \E w \in SWIds :
    /\ rootKind = "notdir" /\ sw[w].st = "done"
    /\ sw[w].out = << SearchFinishedEv(0, "zero") >>

\* The visited files on which os.stat fails after the name tests have passed
StatFailures(s) ==
  { p \in VisitedFiles(s) :
      /\ ExtensionPasses(s.extensions, NameOf(p))
      /\ KeywordPasses(s.keywords, NameOf(p))
      /\ p \notin present }

\* C29: a stat error on one entry makes the search skip that entry only: the
\* entry is not delivered and not counted, the scan goes on with the entries
\* after it, and the run still ends with one terminal summary.
C29_StatErrorSkipsEntry ==
  \A w \in SWIds :
    sw[w].st # "none" =>
      LET s == sw[w]
          pending == IF s.pc \in {"fin", "end"} THEN <<>> ELSE s.current_batch
          kept == Delivered(w) \o pending
      IN /\ \A p \in StatFailures(s) : ~InSeq(p, kept)
         /\ s.count = Len(kept)
         /\ (s.st = "done" /\ s.running /\ rootKind \in {"dir", "leaf"}) =>
              /\ \A p \in Matching(s) : InSeq(p, Delivered(w))
              /\ FinishedCount(s.out) = 1
              /\ Last(s.out) = SearchFinishedEv(Cardinality(Matching(s)), "measured")

\* An uncancelled recursive search has ended in which the first entry of the
\* root could not be stat'ed and the two entries after it were delivered
C29_Witness ==
  \E w \in SWIds :
    /\ sw[w].st = "done" /\ sw[w].running /\ rootKind = "dir"
    /\ 1 \in StatFailures(sw[w])
    /\ Delivered(w) = <<3, 2>>
    /\ Last(sw[w].out).count = 2

\* C30: in non-recursive mode the search delivers only files that are direct
\* children of the root and never a file of a subdirectory; in recursive mode
\* the files at every depth under the root are visited.
C30_RecursionDepth ==
  \A w \in SWIds :
    (sw[w].st # "none" /\ rootKind = "dir") =>
      LET s == sw[w]
          ended == s.st = "done" /\ s.running
      IN /\ ~s.recursive =>
              /\ \A p \in SeqToSet(Delivered(w)) \cup SeqToSet(s.current_batch) : DirOf(p) = 1
              /\ ended =>
                   SeqToSet(Delivered(w)) = { p \in Paths : DirOf(p) = 1 /\ StatableMatch(s, p) }
         /\ (s.recursive /\ ended) =>
              SeqToSet(Delivered(w)) = { p \in Paths : StatableMatch(s, p) }

\* An uncancelled non-recursive search has ended that delivered the two files
\* of the root and not the matching file of the subdirectory
C30_Witness ==
  \E w \in SWIds :
    /\ sw[w].st = "done" /\ sw[w].running /\ rootKind = "dir"
    /\ ~sw[w].recursive
    /\ StatableMatch(sw[w], 2)
    /\ Delivered(w) = <<1, 3>>

\* The outcome lines of the log of run a that identify file p
OutcomeLines(a, p) ==
  { n \in 1..Len(a.out) :
      /\ a.out[n].sig = "log_msg"
      /\ a.out[n].tag \in {"SUCCESS", "SKIP", "ERROR"}
      /\ a.out[n].file = p }

\* C31: every file handled by ActionWorker.run produces exactly one outcome
\* log line (SUCCESS, SKIP or ERROR) that identifies that file, and every
\* ERROR line carries the file path and the reason of the failure.
C31_OneOutcomeLinePerFile ==
  \A w \in AWIds :
    aw[w].st # "none" =>
      LET a == aw[w] IN
      /\ \A k \in 1..a.i : Cardinality(OutcomeLines(a, a.files[k])) = 1
      /\ \A n \in 1..Len(a.out) :
           (a.out[n].sig = "log_msg" /\ a.out[n].tag = "ERROR") =>
             /\ \E k \in 1..a.i : a.out[n].file = a.files[k]
             /\ a.out[n].reason # ""

\* C36: the count carried by the terminal summary of a search equals the
\* number of records emitted in the batches of that run, in complete runs and
\* in cancelled runs alike.
C36_SummaryCountsEmitted ==
  \A w \in SWIds :
    sw[w].st = "done" =>
      /\ Last(sw[w].out).sig = "finished"
      /\ Last(sw[w].out).count = Len(Delivered(w))

\* A cancelled search has ended after keeping one file in a batch of size 2:
\* the partial batch was emitted and the summary counts 1
C36_Witness ==
  \E w \in SWIds :
    /\ sw[w].st = "done" /\ sw[w].seen /\ sw[w].batch_size = 2
    /\ Len(Delivered(w)) = 1
    /\ Last(sw[w].out).count = 1

\* The value that stands for token tok for a file: lines 482-489, right sides
TokenValue(tok, name, st_mtime, st_size) ==
  LET dt_mod == DateTimeOf(st_mtime)
      f_name == SplitExt(name)[1]
  IN CASE tok = "{Year}" -> <<ToString(dt_mod.year)>>
       [] tok = "{Month}" -> <<TwoDigits(dt_mod.month)>>
       [] tok = "{Day}" -> <<TwoDigits(dt_mod.day)>>
       [] tok = "{Week}" -> <<TwoDigits(dt_mod.week)>>
       [] tok = "{Ext}" -> LStrip(SplitExt(name)[2], {"."})
       [] tok = "{Name}" -> f_name
       [] tok = "{First_Letter}" ->
            IF Truthy(f_name) THEN <<Upper(FirstCharacter(f_name[1]))>> ELSE <<"_">>
       [] tok = "{Size_Tier}" -> <<get_size_tier(st_size)>>

RECURSIVE SinglePass(_, _, _, _)
\* Every recognized token of the pattern replaced by its value, all other
\* text and the text of the values left as they are
SinglePass(pattern, name, st_mtime, st_size) ==
  IF pattern = <<>> THEN <<>>
  ELSE (IF Head(pattern) \in PatternTokens
        THEN TokenValue(Head(pattern), name, st_mtime, st_size)
        ELSE <<Head(pattern)>>)
       \o SinglePass(Tail(pattern), name, st_mtime, st_size)

\* C39: token substitution replaces each recognized token of the pattern by
\* its value, keeps all other text (unrecognized tokens included) verbatim,
\* and does not expand again the text a substituted value brought in.
C39_SubstitutionIsSinglePass ==
  (call.op = "substitute" /\ call.done) =>
    call.ret = SinglePass(call.pattern, call.name, call.st_mtime, call.st_size)

\* C35: the files preview_rule shows for a rule are the files matches_rule
\* accepts for that rule.
C35_PreviewShowsWhatTheRuleMatches ==
  (call.op = "preview_rule" /\ call.done) =>
    call.ret = matches_rule_at(call.name, call.st_size, call.st_mtime, call.rule)

\* C34: within one batch no successful transfer writes the destination an
\* earlier successful transfer of the batch wrote: two files reported as
\* SUCCESS never went to the same destination path.
C34_NoOverwriteWithinBatch ==
  \A w \in AWIds :
    aw[w].st # "none" =>
      \A i, j \in 1..Len(written) :
        ( /\ i < j
          /\ HasLine(aw[w], "SUCCESS", written[i].src)
          /\ HasLine(aw[w], "SUCCESS", written[j].src) )
        => written[i].path # written[j].path

\* Every worker whose run has not returned has been asked to stop
AllRunningWorkersAsked(searches, actions) ==
  /\ \A w \in SWIds : searches[w].st = "running" => ~searches[w].running
  /\ \A w \in AWIds : actions[w].st = "running" => ~actions[w].running

\* C37: when stop_operations returns, every SearchWorker and ActionWorker
\* still running has been asked to stop; none is out of reach because a
\* newer worker took its place in the application's reference.
C37_StopReachesEveryWorker ==
  [][stop_operations => AllRunningWorkersAsked(sw', aw')]_vars

\* The profiles a program started on document doc finds
StoredIn(doc) == load_presets(doc, <<>>)

\* Profile `name` is stored alike in two documents
SameStored(doc1, doc2, name) ==
  /\ HasPreset(StoredIn(doc1), name) <=> HasPreset(StoredIn(doc2), name)
  /\ HasPreset(StoredIn(doc1), name) =>
       PresetOf(StoredIn(doc1), name) = PresetOf(StoredIn(doc2), name)

\* C32: after save_current_preset has saved the rule table under a name,
\* load_presets followed by load_selected_preset of that name gives the same
\* ordered rule list, field for field; saving or deleting one profile leaves
\* every other stored profile as it was.
C32_ProfilesRoundTrip ==
  [][ \A name \in PresetNames :
        /\ (save_current_preset(name, TRUE) /\ Truthy(name)) =>
             /\ HasPreset(StoredIn(presets_file'), name)
             /\ PresetOf(StoredIn(presets_file'), name) = rule_table
             /\ \A other \in PresetNames \ {name} :
                  SameStored(presets_file, presets_file', other)
        /\ (delete_preset(name) /\ HasPreset(organizer_presets, name)) =>
             /\ ~HasPreset(StoredIn(presets_file'), name)
             /\ \A other \in PresetNames \ {name} :
                  SameStored(presets_file, presets_file', other)
        /\ (load_selected_preset(name) /\ HasPreset(organizer_presets, name)) =>
             rule_table' = PresetOf(organizer_presets, name) ]_vars

\* Two profiles are stored; the one with a quote in its name holds two rules,
\* one of them with a quote and a backslash in a field, a date and a size,
\* and it is the profile loaded into the rule table
C32_Witness ==
  /\ presets_file.kind = "json" /\ Len(presets_file.members) = 2
  /\ presets_file = json_dump_presets(organizer_presets)
  /\ HasPreset(organizer_presets, <<"p">>)
  /\ HasPreset(organizer_presets, <<"q", "\"">>)
  /\ rule_table = PresetOf(StoredIn(presets_file), <<"q", "\"">>)
  /\ Len(rule_table) = 2
  /\ \E r \in 1..2 : rule_table[r].name = "N" /\ rule_table[r].date_after = <<10>>

\* C33: after load_settings batch_size is a positive integer (the stored
\* value, or 100 when the settings document is missing, unreadable or
\* malformed), and every SearchWorker is started with a positive integer
\* batch size.
C33_BatchSizePositive ==
  /\ batch_size # NotAnInteger /\ batch_size >= 1
  /\ \A w \in SWIds :
       sw[w].st # "none" => sw[w].batch_size # NotAnInteger /\ sw[w].batch_size >= 1

\* The run of worker w of f has emitted its summary as its last signal
SummaryEmitted(f, w) ==
  f[w].st = "done" /\ f[w].out # <<>> /\ Last(f[w].out).sig = "finished"

====
